---- MODULE Spec2Model ----
(***************************************************************************)
(* Model of cantine's record store (BincodeDatabase over a memory-mapped   *)
(* data file and a structured offsets log), of the cursor-paginated search *)
(* of RecipeIndex, of tique's range-bucket feature collector and of the    *)
(* load pipeline.  Each subsystem has its own variables and its own        *)
(* specification; a specification leaves the other subsystems' variables   *)
(* unchanged.                                                              *)
(***************************************************************************)
EXTENDS Integers, Sequences, FiniteSets, Bags, TLC

VARIABLES
    \* ---- record store: the directory on disk
    offsets,      \* offsets.bin: NoFile or [exists, entries: Seq(LogEntry), tail: stray bytes]
    data,         \* data.bin: NoFile or File(bytes); byte offset o is data.bytes[o+1]
    \* ---- record store: the process
    db,           \* the BincodeDatabase handle, or NoHandle
    pc,           \* position inside add: "idle", "appended", "logged", "indexed"
    pending,      \* the record being added and its read_offset, or NoPending
    result,       \* outcome of the last call that returned
    \* ---- record store: history (not read by any operation)
    added,        \* records whose add returned Ok, in order
    attempts,     \* records whose add wrote its bytes to the map, in order
    crash,        \* the last add the process died in, or NoCrash
    hist,         \* [size: initial_size given to create or -1, reopens: opens after a close]
    \* ---- search: the index and one pagination run over it
    sDocs,        \* the documents the query matches: a set of [id, val]
    sSort,        \* the sort key of the run
    sLimit,       \* the limit of the run
    sAfter,       \* the cursor the next search is called with
    sPages,       \* what each search of the run returned, in order
    sState,       \* "off", "paging", "done" (the last search returned no
                  \* cursor) or "panicked"
    \* ---- aggregation: one FeatureCollector run over a segmented index
    aWanted,      \* the AggregationRequest: Seq of [feat, ranges]
    aSegs,        \* the agg of each segment's FeatureSegmentCollector
    aWhole,       \* the agg of one segment collector fed the same documents
    aCount,       \* documents collected so far
    aMerged,      \* what merge_fruits returned, or NotMerged
    aHits,        \* per wanted entry and range: the documents collected so
                  \* far that have the feature with a value inside the range
    \* ---- load: the threads and channels of one run of bin/load.rs
    lEvery,       \* options.commit_every
    lInput,       \* the lines stdin held when load began (history)
    lStdin,       \* the lines stdin still holds
    lLines,       \* the line channel
    lLineOpen,    \* line_sender is not dropped yet
    lProd,        \* per producer thread: its position and its recipe
    lRecipes,     \* the recipe channel
    lMainSender,  \* the main thread's recipe_sender is not dropped yet
    lPending,     \* bag of documents added to the index writer, uncommitted
    lCommitted,   \* bag of documents covered by a commit of the index writer
    lStore,       \* bag of recipes appended to the database
    lCons,        \* the disk_writer thread: position, num_recipes, recipe
    lMain,        \* position of the main thread
    \* ---- merging: two fruits handed to the merge functions
    mA,           \* a FeatureRanges value
    mB,           \* another one
    mOut,         \* the last merge call: its arguments and what it returned
    \* ---- one FeatureVector
    fVec,         \* the values at the positions of the buffer
    fWritten,     \* history: the positions a set has stored a value at
    fOut          \* the last call on the vector and what it returned

storeVars == <<offsets, data, db, pc, pending, result, added, attempts, crash, hist>>
searchVars == <<sDocs, sSort, sLimit, sAfter, sPages, sState>>
aggVars == <<aWanted, aSegs, aWhole, aCount, aMerged, aHits>>

loadVars == <<lEvery, lInput, lStdin, lLines, lLineOpen, lProd, lRecipes, lMainSender,
              lPending, lCommitted, lStore, lCons, lMain>>

mergeVars == <<mA, mB, mOut>>
vectorVars == <<fVec, fWritten, fOut>>

vars == <<storeVars, searchVars, aggVars, loadVars, mergeVars, vectorVars>>

(***************************************************************************)
(* Bounds of the model                                                     *)
(***************************************************************************)
\* number of add calls that reach the data file, over the whole run
MaxAdds == 3
\* number of (re)opens counted in the history
MaxReopens == 1
\* number of searches of one pagination run
MaxPages == 4
\* largest limit of a search
MaxLimit == 2
\* documents collected by one aggregation
MaxDocs == 2
\* segments of the index of one aggregation
MaxSegments == 2
\* lines on stdin of one load
MaxLines == 3
\* options.num_producers of one load
NumProducers == 2
\* entries of an offsets.bin handed to open
MaxLogEntries == 2
\* largest number of feature slots of a fruit handed to the merge functions
MaxSlots == 2
\* largest number of positions of a FeatureVector
MaxPositions == 3

(***************************************************************************)
(* Constants of the program                                                *)
(***************************************************************************)
DATA_HEADER_SIZE == 8
ENTRY_LEN == 32

\* a missing file, a dropped handle, no add in progress, no crash so far
NoFile == [exists |-> FALSE]
NoHandle == [open |-> FALSE]
NoPending == [none |-> TRUE]
NoCrash == [at |-> "none"]

\* a file that exists, holding bytes
File(bytes) == [exists |-> TRUE, bytes |-> bytes]

\* initial_size arguments of create that are tried
InitialSizes == {1, 10, 12, 15}

Ids == {1, 2}
Uuids == {1, 2}
\* the rest of a record, opaque to the store; its length varies
BodyOf(uuid) == IF uuid = 1 THEN <<>> ELSE <<9>>
\* T: Serialize + DeserializeOwned + DatabaseRecord
Records == {[id |-> i, uuid |-> u, body |-> BodyOf(u)] : i \in Ids, u \in Uuids}

get_id(obj) == obj.id
get_uuid(obj) == obj.uuid

(***************************************************************************)
(* Bytes                                                                   *)
(***************************************************************************)
Max(a, b) == IF a >= b THEN a ELSE b

Zeros(n) == [i \in 1..n |-> 0]

\* write_u64::<NativeEndian> / U64::<NativeEndian>::as_bytes on a little-endian
\* host: eight bytes, least significant first
U64Bytes(v) ==
    <<v % 256, (v \div 256) % 256, (v \div 65536) % 256, 0, 0, 0, 0, 0>>

\* read_u64::<NativeEndian>: the inverse; the model's values stay below 2^24
ReadU64(bytes) == bytes[1] + 256 * bytes[2] + 65536 * bytes[3]

\* the record codec: serialize writes id, uuid and the length-prefixed body
Serialize(obj) == <<obj.id, obj.uuid, Len(obj.body)>> \o obj.body

\* deserialize reads one record from the front of bytes and ignores the rest;
\* it fails when the bytes end before the record does
Deserialize(bytes) ==
    IF Len(bytes) < 3 THEN [ok |-> FALSE, kind |-> "InvalidData"]
    ELSE IF Len(bytes) < 3 + bytes[3] THEN [ok |-> FALSE, kind |-> "InvalidData"]
    ELSE [ok |-> TRUE,
          value |-> [id |-> bytes[1], uuid |-> bytes[2],
                     body |-> SubSeq(bytes, 4, 3 + bytes[3])]]

\* a write of w at file position pos of a file opened for writing: the file
\* grows when the write ends past its end
FileWrite(bytes, pos, w) ==
    [i \in 1..Max(Len(bytes), pos + Len(w)) |->
        IF i > pos /\ i <= pos + Len(w) THEN w[i - pos] ELSE bytes[i]]

\* slice[a..a+Len(w)].copy_from_slice(w) on the map: never changes the length
CopyFromSlice(bytes, a, w) ==
    [i \in 1..Len(bytes) |->
        IF i > a /\ i <= a + Len(w) THEN w[i - a] ELSE bytes[i]]

\* &slice[a..]
SliceFrom(bytes, a) == SubSeq(bytes, a + 1, Len(bytes))

(***************************************************************************)
(* LogEntry and StructuredLog                                              *)
(***************************************************************************)
\* LogEntry::new
LogEntry(uuid, id, offset) == [uuid |-> uuid, id |-> id, offset |-> offset]

\* StructuredLog::len: the size of the file in bytes
LogLen(log) == ENTRY_LEN * Len(log.entries) + log.tail

\* mutant of LogWellFormed: only whole entries are counted
LogWellFormed_WholeEntries(log) == (ENTRY_LEN * Len(log.entries)) % ENTRY_LEN = 0

\* StructuredLog::new fails when the size is not a multiple of the entry size
LogWellFormed(log) == LogLen(log) % ENTRY_LEN = 0

\* StructuredLog::append: write_all of the entry's bytes at the end of the
\* file; behind stray bytes the entry is no whole entry of the file
LogAppend(log, entry) ==
    IF log.tail = 0 THEN [log EXCEPT !.entries = Append(log.entries, entry)]
    ELSE [log EXCEPT !.tail = @ + ENTRY_LEN]

\* the bytes a failing write_all can leave behind: none, or a part of the entry
PartialWrites == {0, 5}

EmptyLog == [exists |-> TRUE, entries |-> <<>>, tail |-> 0]

(***************************************************************************)
(* MappedFile                                                              *)
(***************************************************************************)
\* MappedFile::set_append_offset fails when the offset is past the map
SetAppendOffsetOk(maplen, n) == n <= maplen

\* MappedFile::append fails when the bytes do not fit in the map
AppendFits(h, bytes) == h.offset + Len(bytes) <= h.len

(***************************************************************************)
(* BincodeDatabase::open                                                   *)
(***************************************************************************)
RECURSIVE ScanLog_StaleOffset(_, _)
\* mutant of ScanLog: the maps take max_offset before the entry has updated it
ScanLog_StaleOffset(entries, acc) ==
    IF entries = <<>> THEN acc
    ELSE LET e == Head(entries)
         IN  ScanLog_StaleOffset(Tail(entries),
                     [max_offset |-> e.offset,
                      uuid_index |-> (e.uuid :> acc.max_offset) @@ acc.uuid_index,
                      id_index   |-> (e.id :> acc.max_offset) @@ acc.id_index])

RECURSIVE ScanLog_FirstWins(_, _)
\* a scan that keeps the first entry of a key
ScanLog_FirstWins(entries, acc) ==
    IF entries = <<>> THEN acc
    ELSE LET e == Head(entries)
         IN  ScanLog_FirstWins(Tail(entries),
                     [max_offset |-> e.offset,
                      uuid_index |-> acc.uuid_index @@ (e.uuid :> e.offset),
                      id_index   |-> acc.id_index @@ (e.id :> e.offset)])

RECURSIVE ScanLog(_, _)
\* for_each_entry with open's closure: every entry overwrites max_offset and
\* is inserted into both maps (a later entry with the same key wins)
ScanLog(entries, acc) ==
    IF entries = <<>> THEN acc
    ELSE LET e == Head(entries)
         IN  ScanLog(Tail(entries),
                     [max_offset |-> e.offset,
                      uuid_index |-> (e.uuid :> e.offset) @@ acc.uuid_index,
                      id_index   |-> (e.id :> e.offset) @@ acc.id_index])

\* mutant of HeaderCorrupt: the header word is not looked at
HeaderCorrupt_Never(append_offset) == FALSE

\* open's test of the header word read from the map
HeaderCorrupt(append_offset) == append_offset < DATA_HEADER_SIZE

ScanStart ==
    [max_offset |-> DATA_HEADER_SIZE, uuid_index |-> <<>>, id_index |-> <<>>]

\* what open returns for the directory (log, file); log is the offsets file
\* after StructuredLog::new created it when it was missing
OpenOutcome(log, file) ==
    IF ~LogWellFormed(log) THEN [ok |-> FALSE, kind |-> "InvalidData"]
    ELSE LET scan == ScanLog(log.entries, ScanStart)
         IN  IF file = NoFile THEN [ok |-> FALSE, kind |-> "NotFound"]
             ELSE IF scan.max_offset > Len(file.bytes)
                  THEN [ok |-> FALSE, kind |-> "InvalidData"]
             ELSE IF Len(file.bytes) < DATA_HEADER_SIZE
                  THEN [ok |-> FALSE, kind |-> "UnexpectedEof"]
             ELSE LET append_offset == ReadU64(file.bytes)
                  IN  IF HeaderCorrupt(append_offset)
                      THEN [ok |-> FALSE, kind |-> "InvalidData"]
                      ELSE IF ~SetAppendOffsetOk(Len(file.bytes), append_offset)
                           THEN [ok |-> FALSE, kind |-> "InvalidInput"]
                      ELSE [ok |-> TRUE,
                            handle |-> [open       |-> TRUE,
                                        uuid_index |-> scan.uuid_index,
                                        id_index   |-> scan.id_index,
                                        offset     |-> append_offset,
                                        len        |-> Len(file.bytes)]]

\* the offsets file as StructuredLog::new leaves it
LogAfterNew(log) == IF log = NoFile THEN EmptyLog ELSE log

Bump(h) == [h EXCEPT !.reopens = IF @ < MaxReopens THEN @ + 1 ELSE @]

Open ==
    /\ db = NoHandle
    /\ LET log == LogAfterNew(offsets)
           out == OpenOutcome(log, data)
       IN  /\ offsets' = log
           /\ db' = IF out.ok THEN out.handle ELSE NoHandle
           /\ result' = IF out.ok THEN [op |-> "open", ok |-> TRUE]
                        ELSE [op |-> "open", ok |-> FALSE, kind |-> out.kind]
           /\ hist' = IF out.ok THEN Bump(hist) ELSE hist
    /\ UNCHANGED <<data, pc, pending, added, attempts, crash>>

(***************************************************************************)
(* BincodeDatabase::create                                                 *)
(***************************************************************************)
\* mutant of CreatedData: set_len is left out
CreatedData_NoSetLen(initial_size) ==
    File(FileWrite(<<>>, 0, U64Bytes(DATA_HEADER_SIZE)))

\* data.bin as create writes it: set_len(initial_size), then the header word
\* written at position 0 of the new file
CreatedData(initial_size) ==
    File(FileWrite(Zeros(initial_size), 0, U64Bytes(DATA_HEADER_SIZE)))

\* mutant of Create: only offsets.bin is looked for
Create_ChecksOffsetsOnly(initial_size) ==
    /\ db = NoHandle
    /\ IF offsets # NoFile
       THEN /\ result' = [op |-> "create", ok |-> FALSE, kind |-> "InvalidInput"]
            /\ UNCHANGED <<offsets, data, db, hist>>
       ELSE LET file == CreatedData(initial_size)
                out  == OpenOutcome(EmptyLog, file)
            IN  /\ offsets' = EmptyLog
                /\ data' = file
                /\ db' = IF out.ok THEN out.handle ELSE NoHandle
                /\ result' = IF out.ok THEN [op |-> "create", ok |-> TRUE]
                             ELSE [op |-> "create", ok |-> FALSE, kind |-> out.kind]
                /\ hist' = [hist EXCEPT !.size = initial_size]
    /\ UNCHANGED <<pc, pending, added, attempts, crash>>

Create(initial_size) ==
    /\ db = NoHandle
    /\ IF offsets # NoFile \/ data # NoFile
       THEN /\ result' = [op |-> "create", ok |-> FALSE, kind |-> "InvalidInput"]
            /\ UNCHANGED <<offsets, data, db, hist>>
       ELSE LET file == CreatedData(initial_size)
                out  == OpenOutcome(EmptyLog, file)
            IN  /\ offsets' = EmptyLog
                /\ data' = file
                /\ db' = IF out.ok THEN out.handle ELSE NoHandle
                /\ result' = IF out.ok THEN [op |-> "create", ok |-> TRUE]
                             ELSE [op |-> "create", ok |-> FALSE, kind |-> out.kind]
                /\ hist' = [hist EXCEPT !.size = initial_size]
    /\ UNCHANGED <<pc, pending, added, attempts, crash>>

(***************************************************************************)
(* BincodeDatabase::add, one action per effect                             *)
(***************************************************************************)
\* mutant of AddAppend: the error of self.data.append is dropped and add
\* returns Ok
AddAppend_IgnoresFull(obj) ==
    /\ db # NoHandle
    /\ pc = "idle"
    /\ Len(attempts) < MaxAdds
    /\ LET bytes == Serialize(obj)
       IN  IF ~AppendFits(db, bytes)
           THEN /\ result' = [op |-> "add", ok |-> TRUE,
                              size |-> Len(bytes), cursor |-> db.offset]
                /\ UNCHANGED <<data, db, pc, pending, attempts>>
           ELSE /\ data' = File(CopyFromSlice(data.bytes, db.offset, bytes))
                /\ db' = [db EXCEPT !.offset = @ + Len(bytes)]
                /\ pending' = [obj |-> obj, read_offset |-> db.offset]
                /\ pc' = "appended"
                /\ attempts' = Append(attempts, obj)
                /\ UNCHANGED result
    /\ UNCHANGED <<offsets, added, crash, hist>>

\* mutant of AddAppend: the header word is written together with the bytes
AddAppend_HeaderFirst(obj) ==
    /\ db # NoHandle
    /\ pc = "idle"
    /\ Len(attempts) < MaxAdds
    /\ LET bytes == Serialize(obj)
       IN  IF ~AppendFits(db, bytes)
           THEN /\ result' = [op |-> "add", ok |-> FALSE, kind |-> "Full",
                              size |-> Len(bytes), cursor |-> db.offset]
                /\ UNCHANGED <<data, db, pc, pending, attempts>>
           ELSE /\ data' = File(CopyFromSlice(
                                   CopyFromSlice(data.bytes, db.offset, bytes),
                                   0, U64Bytes(db.offset + Len(bytes))))
                /\ db' = [db EXCEPT !.offset = @ + Len(bytes)]
                /\ pending' = [obj |-> obj, read_offset |-> db.offset]
                /\ pc' = "appended"
                /\ attempts' = Append(attempts, obj)
                /\ UNCHANGED result
    /\ UNCHANGED <<offsets, added, crash, hist>>

\* serialize, then self.data.append: on failure add returns the error and
\* nothing else happens; on success the bytes are in the map at the old
\* cursor and the in-memory cursor has advanced
AddAppend(obj) ==
    /\ db # NoHandle
    /\ pc = "idle"
    /\ Len(attempts) < MaxAdds
    /\ LET bytes == Serialize(obj)
       IN  IF ~AppendFits(db, bytes)
           THEN /\ result' = [op |-> "add", ok |-> FALSE, kind |-> "Full",
                              size |-> Len(bytes), cursor |-> db.offset]
                /\ UNCHANGED <<data, db, pc, pending, attempts>>
           ELSE /\ data' = File(CopyFromSlice(data.bytes, db.offset, bytes))
                /\ db' = [db EXCEPT !.offset = @ + Len(bytes)]
                /\ pending' = [obj |-> obj, read_offset |-> db.offset]
                /\ pc' = "appended"
                /\ attempts' = Append(attempts, obj)
                /\ UNCHANGED result
    /\ UNCHANGED <<offsets, added, crash, hist>>

\* self.offsets.append(&entry)
AddLog ==
    /\ pc = "appended"
    /\ offsets' = LogAppend(offsets,
                     LogEntry(get_uuid(pending.obj), get_id(pending.obj),
                              pending.read_offset))
    /\ pc' = "logged"
    /\ UNCHANGED <<data, db, pending, result, added, attempts, crash, hist>>

AddLogFails_KeepsGoing(written) ==
    /\ pc = "appended"
    /\ offsets' = [offsets EXCEPT !.tail = @ + written]
    /\ pc' = "logged"
    /\ UNCHANGED <<data, db, pending, result, added, attempts, crash, hist>>

\* self.offsets.append(&entry)? fails: write_all returns an error after
\* written bytes of the entry, and add returns it; the record's bytes stay
\* in the map and the in-memory cursor stays advanced
AddLogFails(written) ==
    /\ pc = "appended"
    /\ offsets' = [offsets EXCEPT !.tail = @ + written]
    /\ pc' = "idle"
    /\ result' = [op |-> "add", ok |-> FALSE, kind |-> "WriteFailed",
                  size |-> Len(Serialize(pending.obj)),
                  cursor |-> pending.read_offset]
    /\ pending' = NoPending
    /\ UNCHANGED <<data, db, added, attempts, crash, hist>>

\* mutant of AddIndex: the insert into id_index is left out
AddIndex_UuidOnly ==
    /\ pc = "logged"
    /\ db' = [db EXCEPT
                !.uuid_index = (get_uuid(pending.obj) :> pending.read_offset) @@ @]
    /\ pc' = "indexed"
    /\ UNCHANGED <<offsets, data, pending, result, added, attempts, crash, hist>>

\* self.uuid_index.insert, self.id_index.insert
AddIndex ==
    /\ pc = "logged"
    /\ db' = [db EXCEPT
                !.uuid_index = (get_uuid(pending.obj) :> pending.read_offset) @@ @,
                !.id_index   = (get_id(pending.obj) :> pending.read_offset) @@ @]
    /\ pc' = "indexed"
    /\ UNCHANGED <<offsets, data, pending, result, added, attempts, crash, hist>>

\* the header word [0..8] takes the new append cursor, and add returns Ok
AddHeader ==
    /\ pc = "indexed"
    /\ data' = File(CopyFromSlice(data.bytes, 0, U64Bytes(db.offset)))
    /\ pc' = "idle"
    /\ result' = [op |-> "add", ok |-> TRUE, size |-> Len(Serialize(pending.obj)),
                  cursor |-> pending.read_offset]
    /\ added' = Append(added, pending.obj)
    /\ pending' = NoPending
    /\ crash' = NoCrash
    /\ UNCHANGED <<offsets, db, attempts, hist>>

\* the handle is dropped between two calls
Close ==
    /\ db # NoHandle
    /\ pc = "idle"
    /\ db' = NoHandle
    /\ UNCHANGED <<offsets, data, pc, pending, result, added, attempts, crash, hist>>

\* the process dies inside add: the handle and its maps are lost, the files
\* keep what was written
Crash ==
    /\ pc # "idle"
    /\ crash' = [at |-> pc, obj |-> pending.obj, cursor |-> pending.read_offset]
    /\ db' = NoHandle
    /\ pc' = "idle"
    /\ pending' = NoPending
    /\ UNCHANGED <<offsets, data, result, added, attempts, hist>>

(***************************************************************************)
(* BincodeDatabase::get_by_id / get_by_uuid                                *)
(***************************************************************************)
\* deserialize(&self.data[offset..])
deserialize_at(file, offset) ==
    LET r == Deserialize(SliceFrom(file.bytes, offset))
    IN  IF r.ok THEN [ok |-> TRUE, value |-> <<r.value>>]
        ELSE [ok |-> FALSE, kind |-> "InvalidData"]

\* mutant of get_by_id: an id without offset is read at the first record
get_by_id_FirstRecord(h, file, id) ==
    IF id \in DOMAIN h.id_index THEN deserialize_at(file, h.id_index[id])
    ELSE deserialize_at(file, DATA_HEADER_SIZE)

\* Ok(None) is [ok |-> TRUE, value |-> <<>>], Ok(Some(v)) has value <<v>>
get_by_id(h, file, id) ==
    IF id \in DOMAIN h.id_index THEN deserialize_at(file, h.id_index[id])
    ELSE [ok |-> TRUE, value |-> <<>>]

get_by_uuid(h, file, uuid) ==
    IF uuid \in DOMAIN h.uuid_index THEN deserialize_at(file, h.uuid_index[uuid])
    ELSE [ok |-> TRUE, value |-> <<>>]

(***************************************************************************)
(* Search: After (the cursor) and the scores it carries                    *)
(***************************************************************************)
\* the ten sort orders and the width of their scores
Sorts == {"Relevance", "NumIngredients", "InstructionsLength", "TotalTime",
          "CookTime", "PrepTime", "Calories", "FatContent", "CarbContent",
          "ProteinContent"}

\* Sort::Relevance scores are f32, collect_unsigned! fields are u64,
\* collect_float! fields are f64
Width(sort) ==
    IF sort = "Relevance" THEN "f32"
    ELSE IF sort \in {"FatContent", "CarbContent", "ProteinContent"} THEN "f64"
    ELSE "u64"

\* A u64 is the pair <<high 32 bits, low 32 bits>>.  A score is a small
\* number val: the u64 val itself for a u64 key, the float val / 2 for a
\* float key (0.0, 0.5, 1.0, 1.5).
Vals == 0..3

\* f32::to_bits of val / 2
F32Bits(val) ==
    CASE val = 0 -> 0
      [] val = 1 -> 1056964608     \* 0x3F000000 = 0.5
      [] val = 2 -> 1065353216     \* 0x3F800000 = 1.0
      [] val = 3 -> 1069547520     \* 0x3FC00000 = 1.5

\* f64::to_bits of val / 2
F64Bits(val) ==
    CASE val = 0 -> <<0, 0>>
      [] val = 1 -> <<1071644672, 0>>   \* 0x3FE00000_00000000 = 0.5
      [] val = 2 -> <<1072693248, 0>>   \* 0x3FF00000_00000000 = 1.0
      [] val = 3 -> <<1073217536, 0>>   \* 0x3FF80000_00000000 = 1.5

\* After::START
START == [score |-> <<0, 0>>, id |-> 0]

\* After::new, After::from_f32 (to_bits() as u64), After::from_f64
AfterFrom(width, val, recipe_id) ==
    [score |-> CASE width = "u64" -> <<0, val>>
                 [] width = "f32" -> <<0, F32Bits(val)>>
                 [] width = "f64" -> F64Bits(val),
     id |-> recipe_id]

\* After::is_start
is_start(after) == after.score = <<0, 0>> /\ after.id = 0

\* After::score, score_f32 (from_bits(self.0 as u32)), score_f64: the score a
\* cursor carries, or -1 for bits that are none of the model's scores
AfterScore(width, after) ==
    CASE width = "u64" ->
            IF after.score[1] = 0 THEN after.score[2] ELSE -1
      [] width = "f32" ->
            IF \E v \in Vals : F32Bits(v) = after.score[2]
            THEN CHOOSE v \in Vals : F32Bits(v) = after.score[2] ELSE -1
      [] width = "f64" ->
            IF \E v \in Vals : F64Bits(v) = after.score
            THEN CHOOSE v \in Vals : F64Bits(v) = after.score ELSE -1

Condition_Inclusive(width, after, doc) ==
    IF is_start(after) THEN TRUE
    ELSE LET after_score == AfterScore(width, after)
         IN  IF after_score < 0 THEN FALSE
             ELSE IF after_score > doc.val THEN TRUE
             ELSE IF after_score = doc.val THEN after.id <= doc.id
             ELSE FALSE

\* condition_from_score!: whether the collector may keep doc
Condition(width, after, doc) ==
    IF is_start(after) THEN TRUE
    ELSE LET after_score == AfterScore(width, after)
         IN  IF after_score < 0 THEN FALSE
             ELSE IF after_score > doc.val THEN TRUE
             ELSE IF after_score = doc.val THEN after.id < doc.id
             ELSE FALSE

(***************************************************************************)
(* Search: the top-K collector and RecipeIndex::search                     *)
(***************************************************************************)
\* larger score first, smaller id first among equal scores
Before(d, e) == d.val > e.val \/ (d.val = e.val /\ d.id < e.id)

RECURSIVE Ordered(_)
\* the documents of a set in the collector's order
Ordered(docs) ==
    IF docs = {} THEN <<>>
    ELSE LET first == CHOOSE d \in docs : \A e \in docs \ {d} : Before(d, e)
         IN  <<first>> \o Ordered(docs \ {first})

Min(a, b) == IF a <= b THEN a ELSE b

\* the best limit documents of a set, in the collector's order
TopItems(docs, limit) ==
    LET seq == Ordered(docs)
    IN  SubSeq(seq, 1, Min(limit, Len(seq)))

\* the collector of one segment: total counts every matching document of
\* the segment, visited those that passed the condition, items are the best
\* limit of them
Collect(docs, width, limit, after) ==
    LET passed == {d \in docs : Condition(width, after, d)}
    IN  [total   |-> Cardinality(docs),
         visited |-> Cardinality(passed),
         items   |-> TopItems(passed, limit)]

RECURSIVE CollectSegments(_, _, _, _)
\* searcher.search(query, &top_collector) over the segments of the index:
\* the fruits of the segments merged, counts summed, the best limit items kept
CollectSegments(segments, width, limit, after) ==
    IF segments = <<>> THEN [total |-> 0, visited |-> 0, items |-> <<>>]
    ELSE LET fruit == Collect(Head(segments), width, limit, after)
             rest  == CollectSegments(Tail(segments), width, limit, after)
         IN  [total   |-> fruit.total + rest.total,
              visited |-> fruit.visited + rest.visited,
              items   |-> TopItems(
                              {fruit.items[i] : i \in 1..Len(fruit.items)}
                                  \cup {rest.items[i] : i \in 1..Len(rest.items)},
                              limit)]

\* the cursor rule of search: a cursor when more candidates were visited
\* than items are returned
MoreToCome(res, limit) == res.visited - Len(res.items) > 0

\* the call panicked
SearchPanic == [panic |-> TRUE]

\* RecipeIndex::search: (total, ids, cursor); cursor is <<>> for None and
\* <<after>> for Some(after). Reading items[num_items - 1] of an empty page
\* panics.
search(segments, limit, sort, after) ==
    LET res       == CollectSegments(segments, Width(sort), limit, after)
        num_items == Len(res.items)
    IN  IF MoreToCome(res, limit) /\ num_items = 0 THEN SearchPanic
        ELSE [total  |-> res.total,
              items  |-> [i \in 1..num_items |-> res.items[i].id],
              cursor |-> IF MoreToCome(res, limit)
                         THEN <<AfterFrom(Width(sort), res.items[num_items].val,
                                          res.items[num_items].id)>>
                         ELSE <<>>]

\* recipe ids and scores of the indexed documents
DocIds == 0..2
DocVals == 0..2

\* the sets of documents an index can hold: ids are unique
Corpora ==
    {docs \in SUBSET [id : DocIds, val : DocVals] :
        \A d, e \in docs : d.id = e.id => d = e}

SearchOff ==
    /\ sDocs = {}
    /\ sSort = "Relevance"
    /\ sLimit = 1
    /\ sAfter = START
    /\ sPages = <<>>
    /\ sState = "off"

\* a pagination run starts from START over some index, sort key and limit
SearchInit ==
    /\ sDocs \in Corpora
    /\ sSort \in Sorts
    \* the relevance of a matching document is positive
    /\ sSort = "Relevance" => \A d \in sDocs : d.val > 0
    /\ sLimit \in 0..MaxLimit
    /\ sAfter = START
    /\ sPages = <<>>
    /\ sState = "paging"

\* the ways the documents of the index can lie in its segments
Segmentations(docs) ==
    {[i \in 1..MaxSegments |-> {d \in docs : seg[d] = i}] :
        seg \in [docs -> 1..MaxSegments]}

\* one search of the run, over the index in the segments it has at the
\* time of the call; the caller threads the returned cursor
Search ==
    /\ sState = "paging"
    /\ Len(sPages) < MaxPages
    /\ \E segments \in Segmentations(sDocs) :
          LET page == search(segments, sLimit, sSort, sAfter)
          IN  IF page = SearchPanic
              THEN sState' = "panicked" /\ UNCHANGED <<sPages, sAfter>>
              ELSE /\ sPages' = Append(sPages, page)
                   /\ IF page.cursor = <<>>
                      THEN sState' = "done" /\ sAfter' = sAfter
                      ELSE sState' = "paging" /\ sAfter' = page.cursor[1]
    /\ UNCHANGED <<sDocs, sSort, sLimit>>

(***************************************************************************)
(* Aggregation: FeatureRanges and their merge (tique feature/collector.rs) *)
(***************************************************************************)
\* num_features of the collector
NumFeatures == 2

\* Option<Vec<T>>: a slot of a FeatureRanges
NoneV == [some |-> FALSE]
SomeV(v) == [some |-> TRUE, v |-> v]

\* vec![None; num_features]
EmptyRanges(n) == [i \in 1..n |-> NoneV]

merge_ranges_CommonPrefix(dest, src) ==
    [ok |-> TRUE,
     dest |-> [i \in 1..Len(dest) |-> IF i <= Len(src) THEN dest[i] + src[i] ELSE dest[i]]]

\* merge_ranges: element-wise sum, an error for vectors of different lengths
merge_ranges(dest, src) ==
    IF Len(dest) = Len(src)
    THEN [ok |-> TRUE, dest |-> [i \in 1..Len(dest) |-> dest[i] + src[i]]]
    ELSE [ok |-> FALSE, dest |-> dest]

RECURSIVE MergeSlots_KeepsDest(_, _, _)
MergeSlots_KeepsDest(dest, src, i) ==
    IF i > Len(dest) THEN [ok |-> TRUE, dest |-> dest]
    ELSE IF ~src[i].some \/ dest[i].some THEN MergeSlots_KeepsDest(dest, src, i + 1)
    ELSE MergeSlots_KeepsDest([dest EXCEPT ![i] = SomeV(src[i].v)], src, i + 1)

RECURSIVE MergeSlots(_, _, _)
\* the loop of merge_feature_ranges from slot i on: it stops at the first
\* slot whose vectors do not merge, leaving the slots before it merged
MergeSlots(dest, src, i) ==
    IF i > Len(dest) THEN [ok |-> TRUE, dest |-> dest]
    ELSE IF ~src[i].some THEN MergeSlots(dest, src, i + 1)
    ELSE IF dest[i].some
         THEN LET m == merge_ranges(dest[i].v, src[i].v)
              IN  IF m.ok
                  THEN MergeSlots([dest EXCEPT ![i] = SomeV(m.dest)], src, i + 1)
                  ELSE [ok |-> FALSE, dest |-> dest]
         ELSE MergeSlots([dest EXCEPT ![i] = SomeV(src[i].v)], src, i + 1)

merge_feature_ranges_CommonPrefix(dest, src) ==
    MergeSlots(dest,
               [i \in 1..Len(dest) |-> IF i <= Len(src) THEN src[i] ELSE NoneV], 1)

\* merge_feature_ranges(dest, src): the result and dest as the call leaves it
merge_feature_ranges(dest, src) ==
    IF Len(dest) = Len(src) THEN MergeSlots(dest, src, 1)
    ELSE [ok |-> FALSE, dest |-> dest]

RECURSIVE MergeChildren(_, _)
\* the loop of merge_fruits over the children, ? on every merge
MergeChildren(merged, children) ==
    IF children = <<>> THEN [ok |-> TRUE, dest |-> merged]
    ELSE LET m == merge_feature_ranges(merged, Head(children))
         IN  IF m.ok THEN MergeChildren(m.dest, Tail(children))
             ELSE [ok |-> FALSE, dest |-> m.dest]

\* Collector::merge_fruits: a fresh all-None vector, merged with the
\* collector's own (all-None) agg and then with every child
merge_fruits(n, children) ==
    LET first == merge_feature_ranges(EmptyRanges(n), EmptyRanges(n))
    IN  IF ~first.ok THEN [ok |-> FALSE]
        ELSE LET m == MergeChildren(first.dest, children)
             IN  IF m.ok THEN [ok |-> TRUE, fruit |-> m.dest] ELSE [ok |-> FALSE]

(***************************************************************************)
(* Aggregation: FeatureVector and SegmentCollector::collect                *)
(***************************************************************************)
\* the unset_value of the vectors
UNSET == 255

FeatureVector_get_Wraps(doc, i) ==
    LET raw == doc[(i % Len(doc)) + 1]
    IN  IF raw = UNSET THEN <<>> ELSE <<raw>>

FeatureVector_get_Raw(doc, i) ==
    IF i >= Len(doc) THEN <<>> ELSE <<doc[i + 1]>>

\* FeatureVector::get: the value at position i, or <<>> when it is the
\* sentinel or i is no position of the vector
FeatureVector_get(doc, i) ==
    IF i >= Len(doc) THEN <<>>
    ELSE IF doc[i + 1] = UNSET THEN <<>>
    ELSE <<doc[i + 1]>>

\* RangeInclusive::contains
Contains(range, value) == range[1] <= value /\ value <= range[2]

\* a segment collector: its agg, or the fact that collect panicked
Collector(slots) == [panic |-> FALSE, slots |-> slots]
Panicked == [panic |-> TRUE]

\* self.agg.get_mut(feat).expect(..).get_or_insert_with(|| vec![0; n])[idx] += 1
\* with idx counted from 1
Increment(c, feat, n, idx) ==
    IF c.panic THEN c
    ELSE IF feat >= Len(c.slots) THEN Panicked
    ELSE LET cur == c.slots[feat + 1]
             v   == IF cur.some THEN cur.v ELSE Zeros(n)
         IN  IF idx > Len(v) THEN Panicked
             ELSE Collector([c.slots EXCEPT
                                ![feat + 1] = SomeV([v EXCEPT ![idx] = @ + 1])])

RECURSIVE CollectRanges_Eager(_, _, _, _, _)
CollectRanges_Eager(c, feat, ranges, value, idx) ==
    IF idx > Len(ranges) THEN c
    ELSE LET c0 == IF idx = 1 /\ ~c.panic /\ feat < Len(c.slots)
                   THEN IF c.slots[feat + 1].some THEN c
                        ELSE Collector([c.slots EXCEPT
                                          ![feat + 1] = SomeV(Zeros(Len(ranges)))])
                   ELSE c
         IN  CollectRanges_Eager(IF Contains(ranges[idx], value)
                                 THEN Increment(c0, feat, Len(ranges), idx) ELSE c0,
                                 feat, ranges, value, idx + 1)

RECURSIVE CollectRanges(_, _, _, _, _)
\* the loop over the ranges of one wanted entry, in request order
CollectRanges(c, feat, ranges, value, idx) ==
    IF idx > Len(ranges) THEN c
    ELSE CollectRanges(IF Contains(ranges[idx], value)
                       THEN Increment(c, feat, Len(ranges), idx) ELSE c,
                       feat, ranges, value, idx + 1)

RECURSIVE CollectWanted_CountsUnset(_, _, _, _)
CollectWanted_CountsUnset(c, wanted, doc, k) ==
    IF k > Len(wanted) \/ c.panic THEN c
    ELSE LET feat   == wanted[k].feat
             ranges == wanted[k].ranges
         IN  IF feat >= Len(c.slots)
             THEN CollectWanted_CountsUnset(c, wanted, doc, k + 1)
             ELSE CollectWanted_CountsUnset(
                      CollectRanges(c, feat, ranges, doc[feat + 1], 1),
                      wanted, doc, k + 1)

RECURSIVE CollectWanted(_, _, _, _)
\* the loop of collect over the wanted entries from entry k on
CollectWanted(c, wanted, doc, k) ==
    IF k > Len(wanted) \/ c.panic THEN c
    ELSE LET feat   == wanted[k].feat
             ranges == wanted[k].ranges
         IN  IF feat > Len(c.slots)
             THEN CollectWanted(c, wanted, doc, k + 1)
             ELSE LET opt == FeatureVector_get(doc, feat)
                  IN  IF opt = <<>>
                      THEN CollectWanted(c, wanted, doc, k + 1)
                      ELSE CollectWanted(
                               CollectRanges(c, feat, ranges, opt[1], 1),
                               wanted, doc, k + 1)

\* SegmentCollector::collect
collect(c, wanted, doc) == CollectWanted(c, wanted, doc, 1)

RECURSIVE SearchCollectWanted(_, _, _, _)
\* the loop of collect in search/collector.rs: the feature is read from the
\* document before the index is compared with the number of slots
SearchCollectWanted(c, wanted, doc, k) ==
    IF k > Len(wanted) \/ c.panic THEN c
    ELSE LET feat   == wanted[k].feat
             ranges == wanted[k].ranges
             opt    == FeatureVector_get(doc, feat)
         IN  IF opt = <<>>
             THEN SearchCollectWanted(c, wanted, doc, k + 1)
             ELSE IF feat > Len(c.slots)
                  THEN SearchCollectWanted(c, wanted, doc, k + 1)
                  ELSE SearchCollectWanted(
                           CollectRanges(c, feat, ranges, opt[1], 1),
                           wanted, doc, k + 1)

\* FeatureSegmentCollector::collect of search/collector.rs
search_collect(c, wanted, doc) == SearchCollectWanted(c, wanted, doc, 1)

(***************************************************************************)
(* Aggregation: one run                                                    *)
(***************************************************************************)
\* the range lists a request can hold
RangeLists ==
    {<<>>, <<<<1, UNSET>>>>, <<<<1, 1>>>>, <<<<2, 2>>, <<3, 3>>>>, <<<<1, 2>>, <<1, 1>>>>}

WantedEntries == [feat : 0..(NumFeatures + 1), ranges : RangeLists]

\* requests of one or two entries
Requests ==
    {<<e>> : e \in WantedEntries} \cup {<<e, f>> : e, f \in WantedEntries}

\* feature vectors of the documents
FeatureVectors == [1..NumFeatures -> {UNSET, 1, 2}]

NotMerged == [ok |-> FALSE, pending |-> TRUE]

\* no document collected yet: no hit in any range of any entry of wanted
NoHits(wanted) ==
    [k \in 1..Len(wanted) |-> [j \in 1..Len(wanted[k].ranges) |-> 0]]

\* whether doc has the feature of entry with a value inside range
Hit(doc, entry, range) ==
    LET opt == FeatureVector_get(doc, entry.feat)
    IN  opt # <<>> /\ Contains(range, opt[1])

AggOff ==
    /\ aWanted = <<>>
    /\ aSegs = <<>>
    /\ aWhole = Collector(EmptyRanges(NumFeatures))
    /\ aCount = 0
    /\ aMerged = NotMerged
    /\ aHits = <<>>

\* FeatureCollector::for_field with a request
AggInit ==
    /\ aWanted \in Requests
    /\ aSegs = <<>>
    /\ aWhole = Collector(EmptyRanges(NumFeatures))
    /\ aCount = 0
    /\ aMerged = NotMerged
    /\ aHits = NoHits(aWanted)

\* for_segment: a new segment collector with an all-None agg
ForSegment ==
    /\ aMerged = NotMerged
    /\ Len(aSegs) < MaxSegments
    /\ aSegs' = Append(aSegs, Collector(EmptyRanges(NumFeatures)))
    /\ UNCHANGED <<aWanted, aWhole, aCount, aMerged, aHits>>

\* the next matching document lies in segment seg: its collector collects
\* it, and so does the collector of the index held as one segment
CollectDoc(doc, seg) ==
    /\ aMerged = NotMerged
    /\ aCount < MaxDocs
    /\ seg \in 1..Len(aSegs)
    /\ aSegs' = [aSegs EXCEPT ![seg] = collect(@, aWanted, doc)]
    /\ aWhole' = collect(aWhole, aWanted, doc)
    /\ aCount' = aCount + 1
    /\ aHits' = [k \in 1..Len(aWanted) |->
                   [j \in 1..Len(aWanted[k].ranges) |->
                       aHits[k][j]
                         + IF Hit(doc, aWanted[k], aWanted[k].ranges[j])
                           THEN 1 ELSE 0]]
    /\ UNCHANGED <<aWanted, aMerged>>

\* the fruits in the order order[1], order[2], ...
Harvest(order) == [i \in 1..Len(order) |-> aSegs[order[i]].slots]

\* the orders in which the fruits of n segments can reach merge_fruits
Orders(n) ==
    {o \in [1..n -> 1..n] : \A i, j \in 1..n : o[i] = o[j] => i = j}

\* harvest of every segment and merge_fruits, the fruits in any order; a
\* panic of some collect ends the search instead
Merge(order) ==
    /\ aMerged = NotMerged
    /\ Len(aSegs) >= 1
    /\ aMerged' = IF \E i \in 1..Len(aSegs) : aSegs[i].panic
                  THEN [ok |-> FALSE, panic |-> TRUE]
                  ELSE merge_fruits(NumFeatures, Harvest(order))
    /\ UNCHANGED <<aWanted, aSegs, aWhole, aCount, aHits>>

AggNext ==
    \/ ForSegment
    \/ \E doc \in FeatureVectors, seg \in 1..MaxSegments : CollectDoc(doc, seg)
    \/ \E order \in Orders(Len(aSegs)) : Merge(order)

(***************************************************************************)
(* Merging: the merge functions applied to arbitrary fruits                *)
(***************************************************************************)
\* RangeVec::merge of search/collector.rs
RangeVec_merge(storage, other) ==
    IF Len(storage) = Len(other)
    THEN [ok |-> TRUE, dest |-> [i \in 1..Len(storage) |-> storage[i] + other[i]]]
    ELSE [ok |-> FALSE, dest |-> storage]

RECURSIVE FeatureRangesMergeSlots(_, _, _)
\* the loop of FeatureRanges::merge from slot i on: an absent slot of self
\* becomes a zeroed RangeVec of the other's length, then RangeVec::merge adds
FeatureRangesMergeSlots(inner, other, i) ==
    IF i > Len(inner) THEN [ok |-> TRUE, dest |-> inner]
    ELSE IF ~other[i].some THEN FeatureRangesMergeSlots(inner, other, i + 1)
    ELSE LET cur == IF inner[i].some THEN inner[i].v ELSE Zeros(Len(other[i].v))
             m   == RangeVec_merge(cur, other[i].v)
         IN  IF m.ok
             THEN FeatureRangesMergeSlots([inner EXCEPT ![i] = SomeV(m.dest)],
                                          other, i + 1)
             ELSE [ok |-> FALSE, dest |-> [inner EXCEPT ![i] = SomeV(cur)]]

\* FeatureRanges::merge of search/collector.rs
FeatureRanges_merge(inner, other) ==
    IF Len(inner) # Len(other) THEN [ok |-> FALSE, dest |-> inner]
    ELSE FeatureRangesMergeSlots(inner, other, 1)

\* the bucket vectors a slot of a fruit can hold
SlotVecs == {<<1>>, <<0, 0>>, <<2, 1>>, <<1, 1, 1>>}

SlotValues == {NoneV} \cup {SomeV(v) : v \in SlotVecs}

\* the numbers of slots of a fruit
SlotCounts == 1..MaxSlots

Fruits == UNION {[1..n -> SlotValues] : n \in SlotCounts}

NoCall == [op |-> "none"]

MergeOff ==
    /\ mA = <<>>
    /\ mB = <<>>
    /\ mOut = NoCall

MergeInit ==
    /\ mA \in Fruits
    /\ mB \in Fruits
    /\ mOut = NoCall

\* merge_ranges(dest, src) on the vectors of slot i of mA and slot j of mB
MergeRangesCall(i, j) ==
    /\ i \in 1..Len(mA)
    /\ j \in 1..Len(mB)
    /\ mA[i].some
    /\ mB[j].some
    /\ mOut' = [op |-> "merge_ranges", dest |-> mA[i].v, src |-> mB[j].v,
                ret |-> merge_ranges(mA[i].v, mB[j].v)]
    /\ UNCHANGED <<mA, mB>>

\* merge_feature_ranges(dest, src) with dest = mA and src = mB
MergeFeatureRangesCall ==
    /\ mOut' = [op |-> "merge_feature_ranges", ret |-> merge_feature_ranges(mA, mB)]
    /\ UNCHANGED <<mA, mB>>

\* self.merge(other) of search/collector.rs with self = mA and other = mB
FeatureRangesMergeCall ==
    /\ mOut' = [op |-> "FeatureRanges::merge", ret |-> FeatureRanges_merge(mA, mB)]
    /\ UNCHANGED <<mA, mB>>

\* merge_fruits of a collector of n features on the two fruits, in one of
\* the two orders
MergeFruitsCall(n, swap) ==
    /\ mOut' = LET children == IF swap THEN <<mB, mA>> ELSE <<mA, mB>>
               IN  [op |-> "merge_fruits", n |-> n, children |-> children,
                    ret |-> merge_fruits(n, children)]
    /\ UNCHANGED <<mA, mB>>

MergeNext ==
    \/ \E i, j \in SlotCounts : MergeRangesCall(i, j)
    \/ MergeFeatureRangesCall
    \/ FeatureRangesMergeCall
    \/ \E n \in SlotCounts, swap \in BOOLEAN : MergeFruitsCall(n, swap)

(***************************************************************************)
(* FeatureVector: one vector and the calls on it                           *)
(***************************************************************************)
FeatureVector_set_Unchecked(vec, i, v) ==
    IF i >= Len(vec) THEN [ok |-> TRUE, vec |-> vec]
    ELSE [ok |-> TRUE, vec |-> [vec EXCEPT ![i + 1] = v]]

\* FeatureVector::set: the result and the vector as the call leaves it
FeatureVector_set(vec, i, v) ==
    IF i >= Len(vec) THEN [ok |-> FALSE, vec |-> vec]
    ELSE IF v = UNSET THEN [ok |-> FALSE, vec |-> vec]
    ELSE [ok |-> TRUE, vec |-> [vec EXCEPT ![i + 1] = v]]

\* the numbers of positions of a vector
VectorSizes == 1..MaxPositions

\* the values handed to set
SetValues == {1, 2, UNSET}

VectorOff ==
    /\ fVec = <<>>
    /\ fWritten = {}
    /\ fOut = NoCall

\* a vector over a buffer initialised to the sentinel
VectorInit ==
    /\ \E n \in VectorSizes : fVec = [p \in 1..n |-> UNSET]
    /\ fWritten = {}
    /\ fOut = NoCall

\* vector.set(i, v)
VectorSet(i, v) ==
    LET r == FeatureVector_set(fVec, i, v)
    IN  /\ fVec' = r.vec
        /\ fWritten' = IF r.ok THEN fWritten \cup {i} ELSE fWritten
        /\ fOut' = [op |-> "set", i |-> i, v |-> v, ok |-> r.ok, before |-> fVec]

\* vector.get(i)
VectorGet(i) ==
    /\ fOut' = [op |-> "get", i |-> i, ret |-> FeatureVector_get(fVec, i)]
    /\ UNCHANGED <<fVec, fWritten>>

\* positions handed to set and get: every position and two past the end
VectorIndexes == 0..(MaxPositions + 1)

VectorNext ==
    \/ \E i \in VectorIndexes, v \in SetValues : VectorSet(i, v)
    \/ \E i \in VectorIndexes : VectorGet(i)

(***************************************************************************)
(* The load pipeline (bin/load.rs)                                         *)
(***************************************************************************)
Producers == 1..NumProducers

\* the values of options.commit_every
CommitEvery == {1, 2}

\* a producer between two lines, and the disk_writer between two recipes
Idle(pos) == [pc |-> pos, recipe |-> 0]

LoadOff ==
    /\ lEvery = 1
    /\ lInput = <<>>
    /\ lStdin = <<>>
    /\ lLines = <<>>
    /\ lLineOpen = FALSE
    /\ lProd = [p \in Producers |-> Idle("off")]
    /\ lRecipes = <<>>
    /\ lMainSender = FALSE
    /\ lPending = EmptyBag
    /\ lCommitted = EmptyBag
    /\ lStore = EmptyBag
    /\ lCons = [pc |-> "off", num_recipes |-> 0, recipe |-> 0]
    /\ lMain = "off"

\* load up to the spawn of the threads; line i of stdin holds recipe i
LoadInit ==
    /\ lEvery \in CommitEvery
    /\ \E n \in 0..MaxLines : lStdin = [i \in 1..n |-> i]
    /\ lInput = lStdin
    /\ lLines = <<>>
    /\ lLineOpen = TRUE
    /\ lProd = [p \in Producers |-> Idle("recv")]
    /\ lRecipes = <<>>
    /\ lMainSender = TRUE
    /\ lPending = EmptyBag
    /\ lCommitted = EmptyBag
    /\ lStore = EmptyBag
    /\ lCons = [pc |-> "recv", num_recipes |-> 0, recipe |-> 0]
    /\ lMain = "feeding"

\* a thread holds the read guard of the writer's RwLock
Readers == {p \in Producers : lProd[p].pc = "adding"}

\* the disk_writer holds the write guard
WriterHeld == lCons.pc \in {"commit", "finalCommit"}

\* every recipe_sender is dropped: the main thread's and each producer's clone
RecipeChannelClosed ==
    ~lMainSender /\ \A p \in Producers : lProd[p].pc = "exited"

\* main: line_sender.send(line) for the next line of stdin
MainSend ==
    /\ lMain = "feeding"
    /\ lStdin # <<>>
    /\ lLines' = Append(lLines, Head(lStdin))
    /\ lStdin' = Tail(lStdin)
    /\ UNCHANGED <<lInput, lEvery, lLineOpen, lProd, lRecipes, lMainSender, lPending,
                   lCommitted, lStore, lCons, lMain>>

\* main: stdin is at its end, drop(line_sender)
MainDropLines ==
    /\ lMain = "feeding"
    /\ lStdin = <<>>
    /\ lLineOpen' = FALSE
    /\ lMain' = "joinWorkers"
    /\ UNCHANGED <<lInput, lEvery, lStdin, lLines, lProd, lRecipes, lMainSender,
                   lPending, lCommitted, lStore, lCons>>

\* main: every worker.join() has returned
MainJoinWorkers ==
    /\ lMain = "joinWorkers"
    /\ \A p \in Producers : lProd[p].pc = "exited"
    /\ lMain' = "dropSender"
    /\ UNCHANGED <<lInput, lEvery, lStdin, lLines, lLineOpen, lProd, lRecipes,
                   lMainSender, lPending, lCommitted, lStore, lCons>>

\* main: drop(recipe_sender)
MainDropSender ==
    /\ lMain = "dropSender"
    /\ lMainSender' = FALSE
    /\ lMain' = "joinWriter"
    /\ UNCHANGED <<lInput, lEvery, lStdin, lLines, lLineOpen, lProd, lRecipes,
                   lPending, lCommitted, lStore, lCons>>

\* main: disk_writer.join() has returned, load returns Ok
MainJoinWriter ==
    /\ lMain = "joinWriter"
    /\ lCons.pc = "exited"
    /\ lMain' = "done"
    /\ UNCHANGED <<lInput, lEvery, lStdin, lLines, lLineOpen, lProd, lRecipes,
                   lMainSender, lPending, lCommitted, lStore, lCons>>

\* producer p: the for loop receives a line and decodes its recipe
ProdRecv(p) ==
    /\ lProd[p].pc = "recv"
    /\ lLines # <<>>
    /\ lProd' = [lProd EXCEPT ![p] = [pc |-> "lock", recipe |-> Head(lLines)]]
    /\ lLines' = Tail(lLines)
    /\ UNCHANGED <<lInput, lEvery, lStdin, lLineOpen, lRecipes, lMainSender, lPending,
                   lCommitted, lStore, lCons, lMain>>

\* producer p: the line channel is empty and closed, the thread ends and
\* its recipe_sender clone is dropped
ProdExit(p) ==
    /\ lProd[p].pc = "recv"
    /\ lLines = <<>>
    /\ ~lLineOpen
    /\ lProd' = [lProd EXCEPT ![p] = Idle("exited")]
    /\ UNCHANGED <<lInput, lEvery, lStdin, lLines, lLineOpen, lRecipes, lMainSender,
                   lPending, lCommitted, lStore, lCons, lMain>>

\* writer.read() that returns its guard while the write guard is held
ProdLock_NoWait(p) ==
    /\ lProd[p].pc = "lock"
    /\ lProd' = [lProd EXCEPT ![p].pc = "adding"]
    /\ UNCHANGED <<lInput, lEvery, lStdin, lLines, lLineOpen, lRecipes, lMainSender,
                   lPending, lCommitted, lStore, lCons, lMain>>

\* producer p: writer.read() returns its guard
ProdLock(p) ==
    /\ lProd[p].pc = "lock"
    /\ ~WriterHeld
    /\ lProd' = [lProd EXCEPT ![p].pc = "adding"]
    /\ UNCHANGED <<lInput, lEvery, lStdin, lLines, lLineOpen, lRecipes, lMainSender,
                   lPending, lCommitted, lStore, lCons, lMain>>

\* producer p: add_document, then the guard is dropped
ProdAdd(p) ==
    /\ lProd[p].pc = "adding"
    /\ lPending' = lPending (+) SetToBag({lProd[p].recipe})
    /\ lProd' = [lProd EXCEPT ![p].pc = "send"]
    /\ UNCHANGED <<lInput, lEvery, lStdin, lLines, lLineOpen, lRecipes, lMainSender,
                   lCommitted, lStore, lCons, lMain>>

\* producer p: recipe_sender.send(recipe)
ProdSend(p) ==
    /\ lProd[p].pc = "send"
    /\ lRecipes' = Append(lRecipes, lProd[p].recipe)
    /\ lProd' = [lProd EXCEPT ![p] = Idle("recv")]
    /\ UNCHANGED <<lInput, lEvery, lStdin, lLines, lLineOpen, lMainSender, lPending,
                   lCommitted, lStore, lCons, lMain>>

\* disk_writer: the for loop receives a recipe, num_recipes += 1
ConsRecv ==
    /\ lCons.pc = "recv"
    /\ lRecipes # <<>>
    /\ lCons' = [pc |-> "append", num_recipes |-> lCons.num_recipes + 1,
                 recipe |-> Head(lRecipes)]
    /\ lRecipes' = Tail(lRecipes)
    /\ UNCHANGED <<lInput, lEvery, lStdin, lLines, lLineOpen, lProd, lMainSender,
                   lPending, lCommitted, lStore, lMain>>

\* disk_writer: db.append(&recipe) and the test of num_recipes % commit_every
ConsAppend ==
    /\ lCons.pc = "append"
    /\ lStore' = lStore (+) SetToBag({lCons.recipe})
    /\ lCons' = [lCons EXCEPT
                    !.pc = IF lCons.num_recipes % lEvery = 0 THEN "lock" ELSE "recv",
                    !.recipe = 0]
    /\ UNCHANGED <<lInput, lEvery, lStdin, lLines, lLineOpen, lProd, lRecipes,
                   lMainSender, lPending, lCommitted, lMain>>

\* a receive loop that ends as soon as the recipe channel is empty
ConsClose_Early ==
    /\ lCons.pc = "recv"
    /\ lRecipes = <<>>
    /\ lCons' = [lCons EXCEPT !.pc = "finalLock"]
    /\ UNCHANGED <<lInput, lEvery, lStdin, lLines, lLineOpen, lProd, lRecipes,
                   lMainSender, lPending, lCommitted, lStore, lMain>>

\* disk_writer: the recipe channel is empty and closed, the loop ends
ConsClose ==
    /\ lCons.pc = "recv"
    /\ lRecipes = <<>>
    /\ RecipeChannelClosed
    /\ lCons' = [lCons EXCEPT !.pc = "finalLock"]
    /\ UNCHANGED <<lInput, lEvery, lStdin, lLines, lLineOpen, lProd, lRecipes,
                   lMainSender, lPending, lCommitted, lStore, lMain>>

\* disk_writer: writer.write() returns its guard, in the loop or after it
ConsLock ==
    /\ lCons.pc \in {"lock", "finalLock"}
    /\ Readers = {}
    /\ lCons' = [lCons EXCEPT
                    !.pc = IF lCons.pc = "lock" THEN "commit" ELSE "finalCommit"]
    /\ UNCHANGED <<lInput, lEvery, lStdin, lLines, lLineOpen, lProd, lRecipes,
                   lMainSender, lPending, lCommitted, lStore, lMain>>

\* disk_writer: commit() of every document added so far, the guard is dropped
ConsCommit ==
    /\ WriterHeld
    /\ lCommitted' = lCommitted (+) lPending
    /\ lPending' = EmptyBag
    /\ lCons' = [lCons EXCEPT
                    !.pc = IF lCons.pc = "commit" THEN "recv" ELSE "exited"]
    /\ UNCHANGED <<lInput, lEvery, lStdin, lLines, lLineOpen, lProd, lRecipes,
                   lMainSender, lStore, lMain>>

LoadNext ==
    \/ MainSend
    \/ MainDropLines
    \/ MainJoinWorkers
    \/ MainDropSender
    \/ MainJoinWriter
    \/ \E p \in Producers : ProdRecv(p)
    \/ \E p \in Producers : ProdExit(p)
    \/ \E p \in Producers : ProdLock(p)
    \/ \E p \in Producers : ProdAdd(p)
    \/ \E p \in Producers : ProdSend(p)
    \/ ConsRecv
    \/ ConsAppend
    \/ ConsClose
    \/ ConsLock
    \/ ConsCommit

(***************************************************************************)
(* open on a directory it did not write                                    *)
(***************************************************************************)
\* offsets of the entries of such a log
DirOffsets == {8, 11, 17}

DirEntries == {LogEntry(u, i, o) : u \in Uuids, i \in Ids, o \in DirOffsets}

\* an offsets.bin: whole entries, then the bytes of a cut-off entry if any
DirLogs ==
    {NoFile} \cup
    {[exists |-> TRUE, entries |-> e, tail |-> t] :
        e \in UNION {[1..n -> DirEntries] : n \in 0..MaxLogEntries},
        t \in {0, 5}}

\* a data.bin of length len: the header word h, one record, zeros
DirBytes(h, len) ==
    SubSeq(U64Bytes(h) \o Serialize([id |-> 1, uuid |-> 1, body |-> <<>>])
               \o Zeros(len),
           1, len)

DirData ==
    {NoFile} \cup
    {File(DirBytes(h, len)) : h \in {0, 7, 8, 11, 16, 17}, len \in {0, 4, 8, 12, 16}}

OpenInit ==
    /\ offsets \in DirLogs
    /\ data \in DirData
    /\ db = NoHandle
    /\ pc = "idle"
    /\ pending = NoPending
    /\ result = [op |-> "none", ok |-> TRUE]
    /\ added = <<>>
    /\ attempts = <<>>
    /\ crash = NoCrash
    /\ hist = [size |-> -1, reopens |-> 0]

OpenNext ==
    \/ Open
    \/ Close

(***************************************************************************)
(* The store's specification                                               *)
(***************************************************************************)
\* the directory handed to the store: empty, or holding a stray empty data.bin
StoreInit ==
    /\ offsets = NoFile
    /\ data \in {NoFile, File(<<>>)}
    /\ db = NoHandle
    /\ pc = "idle"
    /\ pending = NoPending
    /\ result = [op |-> "none", ok |-> TRUE]
    /\ added = <<>>
    /\ attempts = <<>>
    /\ crash = NoCrash
    /\ hist = [size |-> -1, reopens |-> 0]

StoreNext ==
    \/ \E s \in InitialSizes : Create(s)
    \/ Open
    \/ \E obj \in Records : AddAppend(obj)
    \/ AddLog
    \/ \E written \in PartialWrites : AddLogFails(written)
    \/ AddIndex
    \/ AddHeader
    \/ Close
    \/ Crash

Init == StoreInit /\ SearchOff /\ AggOff /\ LoadOff /\ MergeOff /\ VectorOff

Next == StoreNext /\ UNCHANGED <<searchVars, aggVars, loadVars, mergeVars, vectorVars>>

Spec == Init /\ [][Next]_vars

\* the store when no call is cut short by the death of the process
StoreNextNoCrash ==
    \/ \E s \in InitialSizes : Create(s)
    \/ Open
    \/ \E obj \in Records : AddAppend(obj)
    \/ AddLog
    \/ \E written \in PartialWrites : AddLogFails(written)
    \/ AddIndex
    \/ AddHeader
    \/ Close

NextNoCrash ==
    StoreNextNoCrash /\ UNCHANGED <<searchVars, aggVars, loadVars, mergeVars, vectorVars>>

SpecNoCrash == Init /\ [][NextNoCrash]_vars

\* the store before any call, for the specifications of the other subsystems
StoreOff ==
    /\ offsets = NoFile
    /\ data = NoFile
    /\ db = NoHandle
    /\ pc = "idle"
    /\ pending = NoPending
    /\ result = [op |-> "none", ok |-> TRUE]
    /\ added = <<>>
    /\ attempts = <<>>
    /\ crash = NoCrash
    /\ hist = [size |-> -1, reopens |-> 0]

InitSearch == StoreOff /\ SearchInit /\ AggOff /\ LoadOff /\ MergeOff /\ VectorOff

NextSearch == Search /\ UNCHANGED <<storeVars, aggVars, loadVars, mergeVars, vectorVars>>

SpecSearch == InitSearch /\ [][NextSearch]_vars

InitAgg == StoreOff /\ SearchOff /\ AggInit /\ LoadOff /\ MergeOff /\ VectorOff

NextAgg == AggNext /\ UNCHANGED <<storeVars, searchVars, loadVars, mergeVars, vectorVars>>

SpecAgg == InitAgg /\ [][NextAgg]_vars

InitOpen == OpenInit /\ SearchOff /\ AggOff /\ LoadOff /\ MergeOff /\ VectorOff

NextOpen == OpenNext /\ UNCHANGED <<searchVars, aggVars, loadVars, mergeVars, vectorVars>>

SpecOpen == InitOpen /\ [][NextOpen]_vars

InitLoad == StoreOff /\ SearchOff /\ AggOff /\ LoadInit /\ MergeOff /\ VectorOff

NextLoad == LoadNext /\ UNCHANGED <<storeVars, searchVars, aggVars, mergeVars, vectorVars>>

SpecLoad == InitLoad /\ [][NextLoad]_vars

\* the steps of each thread of load
MainStep ==
    /\ MainSend \/ MainDropLines \/ MainJoinWorkers \/ MainDropSender
          \/ MainJoinWriter
    /\ UNCHANGED <<storeVars, searchVars, aggVars, mergeVars, vectorVars>>

ProdStep(p) ==
    /\ ProdRecv(p) \/ ProdExit(p) \/ ProdLock(p) \/ ProdAdd(p) \/ ProdSend(p)
    /\ UNCHANGED <<storeVars, searchVars, aggVars, mergeVars, vectorVars>>

ConsStep ==
    /\ ConsRecv \/ ConsAppend \/ ConsClose \/ ConsLock \/ ConsCommit
    /\ UNCHANGED <<storeVars, searchVars, aggVars, mergeVars, vectorVars>>

\* the load under a fair scheduler: a thread that can take a step and stays
\* able to take one is run in the end; the channels and the lock wake
\* their waiters
SpecLoadFair ==
    /\ InitLoad
    /\ [][NextLoad]_vars
    /\ WF_vars(MainStep)
    /\ \A p \in Producers : WF_vars(ProdStep(p))
    /\ WF_vars(ConsStep)

InitMerge == StoreOff /\ SearchOff /\ AggOff /\ LoadOff /\ MergeInit /\ VectorOff

NextMerge == MergeNext /\ UNCHANGED <<storeVars, searchVars, aggVars, loadVars, vectorVars>>

SpecMerge == InitMerge /\ [][NextMerge]_vars

InitVector == StoreOff /\ SearchOff /\ AggOff /\ LoadOff /\ MergeOff /\ VectorInit

NextVector == VectorNext /\ UNCHANGED <<storeVars, searchVars, aggVars, loadVars, mergeVars>>

SpecVector == InitVector /\ [][NextVector]_vars

(***************************************************************************)
(* Properties of the record store                                          *)
(***************************************************************************)
Some(v) == [ok |-> TRUE, value |-> <<v>>]
None == [ok |-> TRUE, value |-> <<>>]

\* the entries of the offsets log have pairwise distinct ids and uuids
LogKeysDistinct ==
    offsets.exists =>
        \A i, j \in 1..Len(offsets.entries) :
            i # j => /\ offsets.entries[i].id # offsets.entries[j].id
                     /\ offsets.entries[i].uuid # offsets.entries[j].uuid

\* every record whose add returned Ok is returned unchanged by both lookups
AddedRetrievable ==
    \A k \in 1..Len(added) :
        /\ get_by_id(db, data, get_id(added[k])) = Some(added[k])
        /\ get_by_uuid(db, data, get_uuid(added[k])) = Some(added[k])

\* C1: after any sequence of successful adds of records with distinct ids and
\* uuids, with closes and reopens in between, every added record is returned
\* unchanged by get_by_id and by get_by_uuid, and the two lookups agree.
C1_RoundTrip ==
    (db.open /\ pc = "idle" /\ LogKeysDistinct) =>
        /\ AddedRetrievable
        /\ \A k \in 1..Len(added) :
              get_by_id(db, data, get_id(added[k]))
                  = get_by_uuid(db, data, get_uuid(added[k]))

C1_Witness ==
    /\ db.open /\ pc = "idle" /\ LogKeysDistinct
    /\ hist.reopens >= 1
    /\ Len(added) >= 2

\* the offsets an index entry of handle h points to
IndexedOffsets(h) ==
    {h.id_index[i] : i \in DOMAIN h.id_index}
        \cup {h.uuid_index[u] : u \in DOMAIN h.uuid_index}

\* the serialized length of the record that starts at offset o
RecordLen(bytes, o) == 3 + bytes[o + 3]

\* C2: committed bytes are never overwritten: no step of the store changes a
\* byte in the range of a record that an index entry (id or uuid) of the
\* handle points to, also after a crash inside add, a reopen and further adds.
C2_CommittedBytesKept ==
    [][(db.open /\ db'.open) =>
          \A o \in IndexedOffsets(db) :
              LET n == RecordLen(data.bytes, o)
              IN  SubSeq(data'.bytes, o + 1, o + n) = SubSeq(data.bytes, o + 1, o + n)]_vars

C8_CreateKeepsExisting ==
    [][\A s \in InitialSizes :
          ((offsets.exists \/ data.exists) /\ Create(s)) =>
              /\ result'.op = "create" /\ ~result'.ok
              /\ offsets' = offsets
              /\ data' = data]_vars

C8_Witness ==
    /\ result.op = "create" /\ ~result.ok
    /\ offsets.exists /\ data.exists
    /\ Len(offsets.entries) >= 1
    /\ Len(added) >= 1

\* C9: the error of a create on a directory that already holds the files is
\* of kind AlreadyExists.
C9_AlreadyExistsKind ==
    (result.op = "create" /\ ~result.ok) => result.kind = "AlreadyExists"

\* no entry of the offsets log carries the id or the uuid of obj
FreshKeys(obj) ==
    \A i \in 1..Len(offsets.entries) :
        /\ offsets.entries[i].id # get_id(obj)
        /\ offsets.entries[i].uuid # get_uuid(obj)

\* C10: when the process died inside add after the data bytes were appended
\* and before the log entry was written (and no failed write has left a part
\* of an entry in the log), the next open succeeds with the old header as
\* append cursor, which is not past the interrupted record's bytes; the
\* records added before are still retrievable, the interrupted record is
\* not, and the next add writes at that cursor.
C10_CrashAfterAppend ==
    (crash.at = "appended" /\ offsets.tail = 0) =>
        /\ ~db.open =>
              LET out == OpenOutcome(LogAfterNew(offsets), data)
              IN  /\ out.ok
                  /\ out.handle.offset = ReadU64(data.bytes)
                  /\ out.handle.offset <= crash.cursor
        /\ (db.open /\ pc = "idle") =>
              /\ result.op = "open" =>
                    (db.offset = ReadU64(data.bytes) /\ db.offset <= crash.cursor)
              /\ LogKeysDistinct => AddedRetrievable
              /\ FreshKeys(crash.obj) =>
                    /\ get_by_id(db, data, get_id(crash.obj)) = None
                    /\ get_by_uuid(db, data, get_uuid(crash.obj)) = None
        /\ (db.open /\ pc # "idle" /\ result.op = "open") =>
              /\ pending.read_offset = ReadU64(data.bytes)
              /\ pending.read_offset <= crash.cursor

C10_Witness ==
    /\ crash.at = "appended"
    /\ db.open /\ pc = "appended"
    /\ LogKeysDistinct /\ FreshKeys(crash.obj)
    /\ hist.reopens >= 1
    /\ Len(added) >= 1
    /\ pending.read_offset = crash.cursor

(***************************************************************************)
(* Properties of the search                                                *)
(***************************************************************************)
RECURSIVE Concat(_)
\* the ids of the pages of a run, one after the other
Concat(pages) ==
    IF pages = <<>> THEN <<>> ELSE Head(pages).items \o Concat(Tail(pages))

\* the score of the document with recipe id i
ValOf(i) == (CHOOSE d \in sDocs : d.id = i).val

\* C3: threading the returned cursor from START until None visits every
\* matching document exactly once, by non-increasing score and ascending id
\* among equal scores, and every page reports the same total_found.
C3_ExactlyOnce ==
    LET ids == Concat(sPages)
    IN  /\ \A i, j \in 1..Len(ids) : i # j => ids[i] # ids[j]
        /\ \A i, j \in 1..Len(ids) :
              i < j => Before([id |-> ids[i], val |-> ValOf(ids[i])],
                              [id |-> ids[j], val |-> ValOf(ids[j])])
        /\ \A k \in 1..Len(sPages) : sPages[k].total = Cardinality(sDocs)
        /\ sState = "done" => {ids[i] : i \in 1..Len(ids)} = {d.id : d \in sDocs}

(***************************************************************************)
(* Aggregation properties                                                  *)
(***************************************************************************)
\* the result of the search over the index held as one segment
SingleSegmentOutcome ==
    IF aWhole.panic THEN [ok |-> FALSE, panic |-> TRUE]
    ELSE [ok |-> TRUE, fruit |-> aWhole.slots]

\* C4: for every partition of the documents into segments and every order
\* of the fruits, merging the per-segment fruits gives exactly the result
\* of collecting all the documents as one segment.
C4_SegmentationIndependent ==
    aMerged # NotMerged => aMerged = SingleSegmentOutcome

(***************************************************************************)
(* Load pipeline properties                                                *)
(***************************************************************************)
\* C5: at every moment of the load, every document covered by a commit of
\* the text index has already been appended to the record store, so an id
\* found in the committed index is always found in the store.
C5_CommittedAreStored == lCommitted \sqsubseteq lStore

\* the store was reopened after an add died between its log append and its
\* header write, and no add has begun since
ReopenedAfterLoggedCrash ==
    /\ db # NoHandle
    /\ pc = "idle"
    /\ crash.at \in {"logged", "indexed"}
    /\ result = [op |-> "open", ok |-> TRUE]

\* C11: after a death between the log append and the header write, the
\* reopened store has the stored (old) header as its append cursor, the
\* trailing entry's offset is below the data length, and the trailing
\* entry's record is not visible to get_by_id and get_by_uuid.
C11_CrashAfterLog ==
    ReopenedAfterLoggedCrash =>
        /\ db.offset = crash.cursor
        /\ crash.cursor < db.len
        /\ get_by_id(db, data, get_id(crash.obj)) = None
        /\ get_by_uuid(db, data, get_uuid(crash.obj)) = None

(***************************************************************************)
(* Properties of open                                                      *)
(***************************************************************************)
\* the last call was open, and the directory is as open found it
Opened == result.op = "open" /\ pc = "idle" /\ attempts = <<>>

\* C12: whenever the size of offsets.bin is not a multiple of the 32 bytes
\* of a LogEntry, open fails with InvalidData and produces no handle.
C12_TruncatedLogRejected ==
    (Opened /\ LogLen(offsets) % ENTRY_LEN # 0) =>
        /\ ~result.ok
        /\ result.kind = "InvalidData"
        /\ db = NoHandle

C12_Witness ==
    /\ Opened
    /\ LogLen(offsets) % ENTRY_LEN # 0
    /\ Len(offsets.entries) >= 1
    /\ data # NoFile
    /\ ~result.ok

\* some entry of the log, at any position, points past the data file
SomeEntryPastFile ==
    /\ data # NoFile
    /\ \E i \in 1..Len(offsets.entries) : offsets.entries[i].offset > Len(data.bytes)

\* C13: whenever any entry of the offsets log points past the data file,
\* open fails with a corruption error.
C13_AnyEntryPastFileRejected ==
    (Opened /\ SomeEntryPastFile) => (~result.ok /\ result.kind = "InvalidData")

\* data.bin holds a header word
HasHeader == data # NoFile /\ Len(data.bytes) >= DATA_HEADER_SIZE

\* C14: open succeeds only with 8 <= header word <= mapped length, and then
\* the append cursor is the header word; a header word below 8 fails with
\* InvalidData and a header word past the mapped length fails.
C14_HeaderBounds ==
    Opened =>
        /\ (result.ok /\ db # NoHandle) =>
              /\ HasHeader
              /\ DATA_HEADER_SIZE <= ReadU64(data.bytes)
              /\ ReadU64(data.bytes) <= Len(data.bytes)
              /\ db.offset = ReadU64(data.bytes)
        /\ (HasHeader /\ ReadU64(data.bytes) < DATA_HEADER_SIZE) =>
              (~result.ok /\ result.kind = "InvalidData")
        /\ (HasHeader /\ ReadU64(data.bytes) > Len(data.bytes)) => ~result.ok

C14_Witness ==
    /\ Opened
    /\ result.ok
    /\ db # NoHandle
    /\ db.offset = 11
    /\ Len(offsets.entries) >= 1

(***************************************************************************)
(* Properties of add and of the lookups on one handle                      *)
(***************************************************************************)
\* the last call on the open handle was an add that failed for lack of room
LastAddWasFull ==
    /\ db # NoHandle
    /\ pc = "idle"
    /\ result.op = "add"
    /\ ~result.ok
    /\ result.kind = "Full"

\* C15: once an add has failed because the data file is full, every later
\* add on the handle fails too, whatever the record and its size, while the
\* lookups of the records added before keep returning them.
C15_FullIsTerminal ==
    [][LastAddWasFull =>
          /\ pc' # "appended"
          /\ LogKeysDistinct => AddedRetrievable]_vars

\* the handle that create returned is still the one in use
SameHandle == db # NoHandle /\ pc = "idle" /\ hist.reopens = 0

AddedIdsDistinct ==
    \A j, k \in 1..Len(added) : get_id(added[j]) = get_id(added[k]) => j = k

\* C16: without a reopen, after any successful adds of records with distinct
\* ids, get_by_id of each id returns exactly the record added with that id,
\* whatever was added after it.
C16_VisibleAfterAdd ==
    (SameHandle /\ AddedIdsDistinct) =>
        \A k \in 1..Len(added) :
            get_by_id(db, data, get_id(added[k])) = Some(added[k])

C16_Witness ==
    /\ SameHandle
    /\ AddedIdsDistinct
    /\ Len(added) >= 2
    /\ get_by_id(db, data, get_id(added[1])) = Some(added[1])

\* no add was ever begun for a record of this id / of this uuid
IdNeverAdded(id) == \A k \in 1..Len(attempts) : get_id(attempts[k]) # id
UuidNeverAdded(uuid) == \A k \in 1..Len(attempts) : get_uuid(attempts[k]) # uuid

\* C17: the lookup of an id or uuid that was never added returns Ok(None),
\* in a fresh store and after any adds of other records.
C17_AbsentIsNone ==
    db # NoHandle =>
        /\ \A id \in Ids : IdNeverAdded(id) => get_by_id(db, data, id) = None
        /\ \A uuid \in Uuids :
              UuidNeverAdded(uuid) => get_by_uuid(db, data, uuid) = None

C17_Witness ==
    /\ db # NoHandle
    /\ Len(added) >= 1
    /\ \E id \in Ids : IdNeverAdded(id) /\ get_by_id(db, data, id) = None
    /\ \E uuid \in Uuids : UuidNeverAdded(uuid) /\ get_by_uuid(db, data, uuid) = None

(***************************************************************************)
(* Properties of the cursor of search                                      *)
(***************************************************************************)
\* the cursor that was passed to the search that returned page k
CursorOf(k) == IF k = 1 THEN START ELSE sPages[k - 1].cursor[1]

\* the candidates that passed the continuation predicate of cursor after
Visited(after) == Cardinality({d \in sDocs : Condition(Width(sSort), after, d)})

\* the cursor made of the last item of page
LastItemCursor(page) ==
    LET last_id == page.items[Len(page.items)]
    IN  AfterFrom(Width(sSort), ValOf(last_id), last_id)

\* page k follows the cursor rule
CursorRule(k) ==
    LET page == sPages[k]
    IN  IF Visited(CursorOf(k)) > Len(page.items)
        THEN Len(page.items) >= 1 /\ page.cursor = <<LastItemCursor(page)>>
        ELSE page.cursor = <<>>

\* C18: search returns Some(score and id of the last returned item) as the
\* next cursor if and only if more candidates passed the continuation
\* predicate than items are returned, and None otherwise; no search ends
\* without returning this.
C18_CursorIffMore ==
    /\ sState # "panicked"
    /\ \A k \in 1..Len(sPages) : CursorRule(k)

\* the page a search over the index held as one segment returns
OneSegmentPage(k) == search(<<sDocs>>, sLimit, sSort, CursorOf(k))

\* the ids of all documents in the order of the sort
AllIdsInOrder == LET seq == Ordered(sDocs) IN [i \in 1..Len(seq) |-> seq[i].id]

\* C19: the page returned for a (sort, limit, cursor) is the same for every
\* partition of the documents into segments, so that resuming with the
\* returned cursor, whatever the segments are at the next call, yields the
\* next page with no duplicates and no gaps.
C19_SegmentsDoNotMatter ==
    /\ sState # "panicked"
    /\ \A k \in 1..Len(sPages) : sPages[k] = OneSegmentPage(k)
    /\ LET ids == Concat(sPages)
       IN  /\ Len(ids) <= Cardinality(sDocs)
           /\ ids = SubSeq(AllIdsInOrder, 1, Len(ids))

(***************************************************************************)
(* Properties of the counts of an aggregation                              *)
(***************************************************************************)
\* the count the fruit reports for the feature of entry k and its range j:
\* an absent slot reports no hit, a slot without bucket j reports nothing (-1)
Reported(fruit, k, j) ==
    LET slot == fruit[aWanted[k].feat + 1]
    IN  IF ~slot.some THEN 0
        ELSE IF j <= Len(slot.v) THEN slot.v[j] ELSE -1

\* C20: for every request and every documents collected, the search
\* succeeds and the count reported for a feature and its j-th requested
\* range is the number of documents that have the feature with a value
\* inside that range, each range counted on its own, in request order.
C20_CountsAreHits ==
    aMerged # NotMerged =>
        /\ aMerged.ok
        /\ \A k \in 1..Len(aWanted) :
              aWanted[k].feat < NumFeatures =>
                  \A j \in 1..Len(aWanted[k].ranges) :
                      Reported(aMerged.fruit, k, j) = aHits[k][j]


(***************************************************************************)
(* Aggregation: absent features, lazy buckets                              *)
(***************************************************************************)
\* the document with every feature unset
AllUnset == [i \in 1..NumFeatures |-> UNSET]

\* feature f is listed in the request
Requested(f) == \E k \in 1..Len(aWanted) : aWanted[k].feat = f

\* collector c2 is c1 with the slot of feature f as it was
SlotKept(c1, c2, f) == ~c2.panic => (~c1.panic /\ c2.slots[f + 1] = c1.slots[f + 1])

\* the collectors that can collect a further document: one per segment and
\* the one of the whole index, while the run has documents left and has not
\* merged
Collectors ==
    IF aMerged = NotMerged /\ aCount < MaxDocs
    THEN {aSegs[i] : i \in 1..Len(aSegs)} \cup {aWhole}
    ELSE {}

\* collect of doc by collector c keeps the slot of every requested feature
\* that doc does not have, and every slot when doc has no feature at all
AbsentFeatureKept(c, doc) ==
    LET c2 == collect(c, aWanted, doc)
    IN  /\ \A f \in 0..(NumFeatures - 1) :
               (Requested(f) /\ FeatureVector_get(doc, f) = <<>>) =>
                   SlotKept(c, c2, f)
        /\ doc = AllUnset => c2 = c

\* segments that are all absent merge into an all-absent result
AllAbsentMerge ==
    (aMerged.ok /\ \A i \in 1..Len(aSegs) :
                      ~aSegs[i].panic /\ aSegs[i].slots = EmptyRanges(NumFeatures))
        => aMerged.fruit = EmptyRanges(NumFeatures)

\* C21: collecting a document changes the slot of no requested feature the
\* document does not have (its value is the sentinel), a document with
\* every feature unset changes no slot at all, and segments that are all
\* absent merge into an all-absent result; the collector of
\* search/collector.rs leaves every collector as the one of
\* feature/collector.rs does
C21_AbsentContributesNothing ==
    /\ \A c \in Collectors, doc \in FeatureVectors :
           /\ AbsentFeatureKept(c, doc)
           /\ search_collect(c, aWanted, doc) = collect(c, aWanted, doc)
    /\ AllAbsentMerge

\* two documents were collected under a request whose only range holds every
\* value and the sentinel, and the merged result is all absent
C21_Witness ==
    /\ aWanted = <<[feat |-> 0, ranges |-> <<<<1, UNSET>>>>]>>
    /\ aCount = 2
    /\ aMerged.ok
    /\ aMerged.fruit = EmptyRanges(NumFeatures)


(***************************************************************************)
(* Merging: errors and sums                                                *)
(***************************************************************************)
\* mA and mB have the same number of slots and some slot holds vectors of
\* different lengths on the two sides
UnevenSlot ==
    /\ Len(mA) = Len(mB)
    /\ \E i \in 1..Len(mA) :
           mA[i].some /\ mB[i].some /\ Len(mA[i].v) # Len(mB[i].v)

\* C22: merging two range vectors of different lengths returns an error,
\* whatever the two lengths are, from merge_ranges and from RangeVec::merge;
\* merging two fruits with the same number of slots returns an error when
\* some slot holds vectors of different lengths on the two sides
C22_UnevenRangeVecsRejected ==
    /\ (mOut.op = "merge_ranges" /\ Len(mOut.dest) # Len(mOut.src)) =>
           /\ ~mOut.ret.ok
           /\ ~RangeVec_merge(mOut.dest, mOut.src).ok
    /\ (mOut.op = "merge_feature_ranges" /\ UnevenSlot) => ~mOut.ret.ok
    /\ (mOut.op = "FeatureRanges::merge" /\ UnevenSlot) => ~mOut.ret.ok

\* merge_feature_ranges returned an error for two fruits of two slots each
\* whose second slots hold vectors of lengths 3 and 1
C22_Witness ==
    /\ mOut.op = "merge_feature_ranges"
    /\ Len(mA) = 2
    /\ Len(mB) = 2
    /\ mA[2] = SomeV(<<1, 1, 1>>)
    /\ mB[2] = SomeV(<<1>>)
    /\ ~mOut.ret.ok


\* C23: merging two fruits with different numbers of feature slots returns
\* an error, from merge_feature_ranges and from FeatureRanges::merge;
\* merge_fruits of two such fruits, and of any fruit whose number of slots
\* is not the collector's, returns the error and no merged result
C23_UnevenFruitsRejected ==
    /\ (mOut.op = "merge_feature_ranges" /\ Len(mA) # Len(mB)) => ~mOut.ret.ok
    /\ (mOut.op = "FeatureRanges::merge" /\ Len(mA) # Len(mB)) => ~mOut.ret.ok
    /\ (mOut.op = "merge_fruits"
          /\ \/ Len(mOut.children[1]) # Len(mOut.children[2])
             \/ \E k \in 1..2 : Len(mOut.children[k]) # mOut.n) =>
           /\ ~mOut.ret.ok
           /\ DOMAIN mOut.ret = {"ok"}

\* merge_fruits of a collector of two features merged a fruit of two slots
\* and then failed on a fruit of one slot
C23_Witness ==
    /\ mOut.op = "merge_fruits"
    /\ mOut.n = 2
    /\ Len(mOut.children[1]) = 2
    /\ Len(mOut.children[2]) = 1
    /\ ~mOut.ret.ok


\* mA and mB have the same number of slots and, in every slot present on
\* both sides, vectors of the same length
Compatible ==
    /\ Len(mA) = Len(mB)
    /\ \A i \in 1..Len(mA) :
           (mA[i].some /\ mB[i].some) => Len(mA[i].v) = Len(mB[i].v)

\* the merge of one slot: absent with absent is absent, one side present is
\* that side, both present is the element-wise sum
SlotSum(a, b) ==
    IF ~a.some THEN b
    ELSE IF ~b.some THEN a
    ELSE SomeV([j \in 1..Len(a.v) |-> a.v[j] + b.v[j]])

FruitSum(a, b) == [i \in 1..Len(a) |-> SlotSum(a[i], b[i])]

\* C29: merging src into dest, for fruits with the same number of slots and
\* the same length in every slot present on both sides, succeeds and gives
\* slot by slot absent for two absent slots, the present side when one is
\* present, and the element-wise sum when both are; merging an all-absent
\* fruit, or a zero-filled vector into a vector, leaves the counts as they
\* were; merging two fruits gives the same outcome in either order
C29_MergeIsSlotwiseSum ==
    /\ (mOut.op \in {"merge_feature_ranges", "FeatureRanges::merge"} /\ Compatible) =>
           /\ mOut.ret.ok
           /\ mOut.ret.dest = FruitSum(mA, mB)
           /\ mOut.ret.dest = FruitSum(mB, mA)
           /\ (\A i \in 1..Len(mB) : ~mB[i].some) => mOut.ret.dest = mA
    /\ (mOut.op = "merge_ranges" /\ mOut.src = Zeros(Len(mOut.dest))) =>
           (mOut.ret.ok /\ mOut.ret.dest = mOut.dest)
    /\ mOut.op = "merge_fruits" =>
           /\ mOut.ret = merge_fruits(mOut.n, <<mOut.children[2], mOut.children[1]>>)
           /\ (Compatible /\ Len(mA) = mOut.n) =>
                  (mOut.ret.ok /\ mOut.ret.fruit = FruitSum(mA, mB))

\* two fruits whose first slots both hold [2, 1] and whose second slot is
\* present on one side only were merged
C29_Witness ==
    /\ mOut.op = "merge_feature_ranges"
    /\ mA = <<SomeV(<<2, 1>>), NoneV>>
    /\ mB = <<SomeV(<<2, 1>>), SomeV(<<1>>)>>
    /\ mOut.ret.ok
    /\ mOut.ret.dest = <<SomeV(<<4, 2>>), SomeV(<<1>>)>>


(***************************************************************************)
(* FeatureVector: set and get                                              *)
(***************************************************************************)
\* the positions of the vector
Positions == 0..(Len(fVec) - 1)

\* C24: on a vector of N positions over a buffer initialised to the
\* sentinel, set(i, v) with i < N and v not the sentinel succeeds, get(i)
\* is then Some(v) and every other position holds what it held before;
\* get(j) is None for every position j no set has stored a value at
C24_SetGetRoundTrip ==
    /\ (fOut.op = "set" /\ fOut.i < Len(fOut.before) /\ fOut.v # UNSET) =>
           /\ fOut.ok
           /\ FeatureVector_get(fVec, fOut.i) = <<fOut.v>>
           /\ \A j \in Positions \ {fOut.i} :
                  FeatureVector_get(fVec, j) = FeatureVector_get(fOut.before, j)
    /\ \A j \in Positions \ fWritten : FeatureVector_get(fVec, j) = <<>>
    /\ \A j \in fWritten : FeatureVector_get(fVec, j) # <<>>

\* position 1 of a vector of three positions was set to 2, after position 2
\* had been set; position 0 was never set
C24_Witness ==
    /\ fOut.op = "set"
    /\ fOut.ok
    /\ fOut.i = 1
    /\ fOut.v = 2
    /\ Len(fVec) = 3
    /\ fWritten = {1, 2}
    /\ FeatureVector_get(fVec, 0) = <<>>

\* C25: set(i, v) fails and leaves the vector as it was when v is the
\* sentinel and when i is no position of the vector; otherwise it succeeds
\* and stores v at position i
C25_SetRejects ==
    fOut.op = "set" =>
        IF fOut.v = UNSET \/ fOut.i >= Len(fOut.before)
        THEN ~fOut.ok /\ fVec = fOut.before
        ELSE fOut.ok /\ fVec = [fOut.before EXCEPT ![fOut.i + 1] = fOut.v]

\* a set of the sentinel at a position that holds a value failed
C25_Witness ==
    /\ fOut.op = "set"
    /\ fOut.v = UNSET
    /\ fOut.i \in fWritten
    /\ ~fOut.ok


(***************************************************************************)
(* The order of the effects of add                                         *)
(***************************************************************************)
\* the header word of the data file
Header(file) == ReadU64(file.bytes)

\* the bytes of the pending record lie in the data file at its offset
PendingBytesWritten ==
    /\ pending # NoPending
    /\ SliceFrom(data.bytes, pending.read_offset)
         = Serialize(pending.obj) \o
             SliceFrom(data.bytes, pending.read_offset + Len(Serialize(pending.obj)))

\* the log append of the pending record has been performed: its entry is the
\* last one of the log, or its bytes lie behind stray bytes
PendingLogged ==
    IF offsets.tail = 0
    THEN /\ offsets.entries # <<>>
         /\ offsets.entries[Len(offsets.entries)] =
               LogEntry(get_uuid(pending.obj), get_id(pending.obj), pending.read_offset)
    ELSE offsets.tail >= ENTRY_LEN

\* both maps hold the pending record at its offset
PendingIndexed ==
    /\ get_id(pending.obj) \in DOMAIN db.id_index
    /\ db.id_index[get_id(pending.obj)] = pending.read_offset
    /\ get_uuid(pending.obj) \in DOMAIN db.uuid_index
    /\ db.uuid_index[get_uuid(pending.obj)] = pending.read_offset

\* a step that writes to an existing offsets log
LogStep == offsets.exists /\ offsets'.exists /\ offsets' # offsets

\* a step that changes a map of the handle
MapStep ==
    /\ db.open /\ db'.open
    /\ (db'.id_index # db.id_index \/ db'.uuid_index # db.uuid_index)

\* a step that changes the header word of an existing data file
HeaderStep ==
    /\ data.exists /\ data'.exists
    /\ Len(data.bytes) >= DATA_HEADER_SIZE /\ Len(data'.bytes) >= DATA_HEADER_SIZE
    /\ Header(data') # Header(data)

\* a step in which add returns an error
AddFailStep == result' # result /\ result'.op = "add" /\ ~result'.ok

AddOrderStep ==
    /\ LogStep =>
          /\ PendingBytesWritten
          /\ data' = data
          /\ db' = db \/ ~db'.open
          /\ Header(data) <= pending.read_offset
    /\ MapStep =>
          /\ PendingBytesWritten
          /\ PendingLogged
          /\ offsets' = offsets
          /\ data' = data
          /\ Header(data) <= pending.read_offset
    /\ HeaderStep =>
          /\ PendingBytesWritten
          /\ PendingLogged
          /\ PendingIndexed
          /\ offsets' = offsets
          /\ db' = db
          /\ Header(data') = db.offset
          /\ added' = Append(added, pending.obj)
          /\ result'.op = "add" /\ result'.ok
    /\ added' # added => HeaderStep
    /\ AddFailStep =>
          /\ added' = added
          /\ data' = data
          /\ db' = db
          /\ result'.kind = "Full" => offsets' = offsets
          /\ result'.kind # "Full" =>
                (PendingBytesWritten /\ offsets'.entries = offsets.entries)

\* C26: the effects of add happen in the order data append, log append,
\* insert into both maps, header word: a step that writes the log finds the
\* record's bytes in the data file and changes neither maps nor header; a
\* step that changes a map finds bytes and log entry written and the header
\* still not past the record; the step that changes the header word finds
\* bytes, log entry and map entries in place and is the step in which add
\* returns Ok (the commit point). When the data append or the log append
\* fails, add returns without inserting into the maps and without writing
\* the header word, and a failed data append writes no log entry either.
C26_AddOrder == [][AddOrderStep]_vars

\* after one add has returned Ok, the log append of a later add has failed
C26_Witness ==
    /\ Len(added) >= 1
    /\ db.open
    /\ pc = "idle"
    /\ result.op = "add"
    /\ ~result.ok
    /\ result.kind = "WriteFailed"


(***************************************************************************)
(* The continuation predicate                                              *)
(***************************************************************************)
\* the predicate as stated: a strictly smaller score than the cursor's, or
\* the same score and a larger id
Accepts(after, d) ==
    LET last_score == AfterScore(Width(sSort), after)
    IN  d.val < last_score \/ (d.val = last_score /\ d.id > after.id)

\* the cursors a caller can pass for the sort key of the run
Cursors == {AfterFrom(Width(sSort), v, id) : v \in DocVals, id \in DocIds}

\* the documents of page k
PageDocs(k) ==
    {d \in sDocs : \E i \in 1..Len(sPages[k].items) : sPages[k].items[i] = d.id}

\* C27: the continuation predicate accepts every document when the cursor
\* is START and otherwise accepts a document exactly when its score is
\* smaller than the cursor's score, or equal to it with an id larger than
\* the cursor's id; every item of every returned page satisfies the
\* predicate for the cursor the search was called with
C27_ContinuationPredicate ==
    /\ \A after \in Cursors \cup {sAfter}, d \in sDocs :
           Condition(Width(sSort), after, d) <=> (after = START \/ Accepts(after, d))
    /\ \A k \in 1..Len(sPages) : \A d \in PageDocs(k) :
           CursorOf(k) = START \/ Accepts(CursorOf(k), d)

\* the second page of a run was called with a cursor that is not START and
\* holds a document with the cursor's score and a larger id, while the
\* document the cursor was made of is not on it
C27_Witness ==
    /\ Len(sPages) >= 2
    /\ CursorOf(2) # START
    /\ \E d \in PageDocs(2) :
           /\ d.val = AfterScore(Width(sSort), CursorOf(2))
           /\ d.id > CursorOf(2).id
    /\ \A d \in PageDocs(2) : d.id # CursorOf(2).id


\* some collected document had feature f with a value inside a range some
\* entry of the request lists for f
FeatureHit(f) ==
    \E k \in 1..Len(aWanted) :
        /\ aWanted[k].feat = f
        /\ \E j \in 1..Len(aWanted[k].ranges) : aHits[k][j] > 0

\* slots is lazily allocated with respect to the documents collected
LazySlots(slots) ==
    \A f \in 0..(NumFeatures - 1) :
        /\ slots[f + 1].some <=> FeatureHit(f)
        /\ slots[f + 1].some => \E j \in 1..Len(slots[f + 1].v) : slots[f + 1].v[j] > 0

\* C28: in the fruit of a segment that holds every matching document, and in
\* the merged result of any segmentation, the slot of a feature is absent
\* exactly when no matching document had the feature with a value inside
\* one of the ranges requested for it, so the slot of a feature requested
\* with an empty range list and of a feature not requested is absent; a
\* present slot of any segment and of the result holds a non-zero count
C28_LazyBuckets ==
    /\ ~aWhole.panic => LazySlots(aWhole.slots)
    /\ aMerged.ok => LazySlots(aMerged.fruit)
    /\ \A i \in 1..Len(aSegs) : ~aSegs[i].panic =>
           \A f \in 0..(NumFeatures - 1) :
               aSegs[i].slots[f + 1].some =>
                   /\ FeatureHit(f)
                   /\ \E j \in 1..Len(aSegs[i].slots[f + 1].v) :
                          aSegs[i].slots[f + 1].v[j] > 0

\* two documents were collected and merged: feature 0 has a bucket vector,
\* feature 1 was requested with ranges no document's value lies in and has none
C28_Witness ==
    /\ aMerged.ok
    /\ aCount = 2
    /\ Len(aWanted) = 2
    /\ aWanted[1].feat = 0
    /\ aWanted[2].feat = 1
    /\ aWanted[2].ranges # <<>>
    /\ aMerged.fruit[1].some
    /\ ~aMerged.fruit[2].some
    /\ aWhole.slots = aMerged.fruit


\* the entry names a feature of the collector
InRange(entry) == entry.feat < NumFeatures

\* the request without its out-of-range entries
InRangeWanted == SelectSeq(aWanted, InRange)

BlockedReaders == {p \in Producers : lProd[p].pc = "lock"}

\* C31: in the ingest pipeline no producer is inside add_document, holding
\* the read guard of the writer's lock, while the disk_writer is inside
\* commit, holding its write guard; the read guard itself is shared, any
\* number of producers may hold it at once (C31_SharedAdds is reachable)
C31_CommitExcludesAdds == ~(WriterHeld /\ Readers # {})

\* the disk_writer commits while a producer waits for the read guard
C31_Witness ==
    /\ WriterHeld
    /\ BlockedReaders # {}
    /\ Readers = {}

\* every producer is inside add_document at the same time
C31_SharedAdds == Readers = Producers /\ NumProducers > 1

(***************************************************************************)
(* C32: the load ends and loses nothing                                    *)
(***************************************************************************)
\* the recipes of the input, each as often as stdin held it
InputBag ==
    LET recipes == {lInput[i] : i \in 1..Len(lInput)}
    IN  [r \in recipes |-> Cardinality({i \in 1..Len(lInput) : lInput[i] = r})]

\* nothing is left in a channel or in a thread
Drained ==
    /\ lStdin = <<>>
    /\ lLines = <<>>
    /\ lRecipes = <<>>
    /\ \A p \in Producers : lProd[p] = Idle("exited")
    /\ lCons.pc = "exited" /\ lCons.recipe = 0

\* load has returned with each input record added to the index once,
\* appended to the store once and covered by a commit
LoadedAll ==
    /\ lMain = "done"
    /\ Drained
    /\ lCons.num_recipes = Len(lInput)
    /\ lPending = EmptyBag
    /\ lCommitted = InputBag
    /\ lStore = InputBag

BetweenCalls == db # NoHandle /\ pc = "idle"

\* the header word of data.bin is the in-memory append cursor
HeaderIsCursor == Header(data) = db.offset

\* 8 <= cursor <= length of data.bin
CursorInFile ==
    /\ DATA_HEADER_SIZE <= db.offset
    /\ db.offset <= Len(data.bytes)

\* every offset of id_index and uuid_index starts a record that lies
\* between the header and the cursor
IndexedInsideCursor ==
    \A o \in IndexedOffsets(db) :
        /\ DATA_HEADER_SIZE <= o
        /\ o + RecordLen(data.bytes, o) <= db.offset

\* the byte range of the record that starts at offset o
RecordRange(o) == o..(o + RecordLen(data.bytes, o) - 1)

\* the offsets at which adds put their records: those of the log entries
\* and those of the maps
AddedOffsets ==
    {offsets.entries[k].offset : k \in 1..Len(offsets.entries)}
        \cup IndexedOffsets(db)

\* the byte ranges of distinct added records do not overlap
AddedRangesDisjoint ==
    \A o1, o2 \in AddedOffsets :
        o1 # o2 => RecordRange(o1) \cap RecordRange(o2) = {}

\* C33: between two calls on a store reached by create, open and add with
\* no crash, the header word of data.bin equals the in-memory append
\* cursor, 8 <= cursor <= length of data.bin, every offset o of id_index and
\* uuid_index has 8 <= o and o + (length of its record) <= cursor, and the
\* byte ranges of distinct added records do not overlap
C33_StoreInvariants ==
    BetweenCalls =>
        /\ HeaderIsCursor
        /\ CursorInFile
        /\ IndexedInsideCursor
        /\ AddedRangesDisjoint

(***************************************************************************)
(* C34: a returned cursor is not START                                     *)
(***************************************************************************)
\* the document of the index with recipe id i
DocOf(i) == CHOOSE d \in sDocs : d.id = i

\* the last document page k returned
LastDoc(k) == DocOf(sPages[k].items[Len(sPages[k].items)])

\* page k + 1 holds only documents that come after the last one of page k
ContinuesAfter(k) ==
    \A i \in 1..Len(sPages[k + 1].items) :
        Before(LastDoc(k), DocOf(sPages[k + 1].items[i]))

\* C34: a next_cursor returned by search is never the START sentinel
\* (0, 0), whatever the sort key and the score and id of the page's last
\* item, so the search that is handed the cursor continues after the last
\* returned document and does not start again from the beginning
C34_CursorNeverStart ==
    \A k \in 1..Len(sPages) :
        sPages[k].cursor # <<>> =>
            /\ ~is_start(sPages[k].cursor[1])
            /\ k < Len(sPages) => ContinuesAfter(k)

(***************************************************************************)
(* C35: the cursor is built from a page that has items                     *)
(***************************************************************************)
\* the limits query.rs can pass: num_items of the query, 0 included
Limits == 0..MaxLimit

\* what the collector hands to search for a limit and a cursor
Collected(limit, after) ==
    CollectSegments(<<sDocs>>, Width(sSort), limit, after)

\* C35: search builds the next cursor only from a page that has items:
\* for every limit the query admits, 0 included, and every cursor, when
\* more candidates were visited than items are returned the page has at
\* least one item, so items[num_items - 1] is inside the page and no search
\* panics
C35_CursorFromNonEmptyPage ==
    /\ \A limit \in Limits, after \in Cursors \cup {START} :
          LET res == Collected(limit, after)
          IN  MoreToCome(res, limit) => Len(res.items) >= 1
    /\ sState # "panicked"

(***************************************************************************)
(* C36: the bucket vectors of one request                                  *)
(***************************************************************************)
\* no collect of any segment indexed past the end of a bucket vector
NoBucketOverrun == \A s \in 1..Len(aSegs) : ~aSegs[s].panic

\* the bucket vectors the segments hold for feature f
BucketVectors(f) ==
    {aSegs[s].slots[f + 1].v :
        s \in {t \in 1..Len(aSegs) :
                  ~aSegs[t].panic /\ aSegs[t].slots[f + 1].some}}

\* C36: for every aggregation request, also one that lists a feature more
\* than once with range lists of different lengths, the bucket vectors the
\* segments produce for a feature all have the same length, no increment
\* indexes past the end of its vector, and the merge of the fruits of that
\* one request does not fail
C36_UniformBuckets ==
    /\ NoBucketOverrun
    /\ \A f \in 0..(NumFeatures - 1) :
          \A v, w \in BucketVectors(f) : Len(v) = Len(w)
    /\ aMerged # NotMerged => (aMerged.ok /\ ~("panic" \in DOMAIN aMerged))

(***************************************************************************)
(* C37: a merge that fails                                                 *)
(***************************************************************************)
\* the last call was a merge of mB into mA that returned an error
MergeFailed ==
    /\ mOut.op \in {"merge_feature_ranges", "FeatureRanges::merge"}
    /\ ~mOut.ret.ok

\* C37: a merge that fails leaves its destination unchanged: when
\* merge_feature_ranges(dest, src) or FeatureRanges::merge returns an error,
\* for slot counts that differ or for a slot whose range vectors differ in
\* length, every slot of dest holds the value it had before the call
C37_FailedMergeKeepsDest == MergeFailed => mOut.ret.dest = mA

(***************************************************************************)
(* C38: open rebuilds what the handle held                                 *)
(***************************************************************************)
\* every add that wrote its bytes has returned Ok
AllAddsSucceeded == Len(attempts) = Len(added)

RECURSIVE SerializedLen(_)
\* the bytes the records of a sequence take in data.bin
SerializedLen(objs) ==
    IF objs = <<>> THEN 0
    ELSE Len(Serialize(Head(objs))) + SerializedLen(Tail(objs))

\* the offset at which the k-th successful add put its record
AddOffset(k) == DATA_HEADER_SIZE + SerializedLen(SubSeq(added, 1, k - 1))

\* offsets.bin holds one 32-byte entry per successful add, in add order
LogIsAdds ==
    /\ LogLen(offsets) = ENTRY_LEN * Len(added)
    /\ Len(offsets.entries) = Len(added)
    /\ \A k \in 1..Len(added) :
          offsets.entries[k]
              = LogEntry(get_uuid(added[k]), get_id(added[k]), AddOffset(k))

\* what open would return for the files as they are
Reopened == OpenOutcome(offsets, data)

\* C38: after any sequence of successful adds, adds that repeat an id or a
\* uuid included, an open after close rebuilds the handle exactly: its
\* id -> offset map, its uuid -> offset map and its append cursor are those
\* the handle held in memory before close, and offsets.bin holds exactly
\* one 32-byte entry per successful add, in add order
C38_ReopenRebuildsState ==
    (BetweenCalls /\ AllAddsSucceeded) =>
        /\ Reopened.ok
        /\ Reopened.handle.id_index = db.id_index
        /\ Reopened.handle.uuid_index = db.uuid_index
        /\ Reopened.handle.offset = db.offset
        /\ LogIsAdds

\* a store reopened after two successful adds of one id
C38_Witness ==
    /\ BetweenCalls
    /\ AllAddsSucceeded
    /\ result = [op |-> "open", ok |-> TRUE]
    /\ hist.reopens >= 1
    /\ Len(added) >= 2
    /\ get_id(added[1]) = get_id(added[2])
    /\ get_uuid(added[1]) # get_uuid(added[2])

====
